---- MODULE Spec2Model ----
(***************************************************************************)
(* State-machine model of the stable-pool token-swap processor             *)
(* (stable-pool/token-swap/program/src/processor.rs) with its policy       *)
(* constraints (constraints.rs) and pool record versioning                 *)
(* (atlas-swap/program/src/state.rs).                                      *)
(*                                                                         *)
(* One action per instruction of Processor::process.  A handler is an      *)
(* operator from the account state and a request to a result               *)
(* [err, s]: the error it returns ("Ok" on success) and the account state  *)
(* its ledger calls and record writes have produced by the time it         *)
(* returns.  The host commits that state only when the handler returns Ok. *)
(*                                                                         *)
(* The curve engine (crate::curve) is not part of the available sources;   *)
(* its operators are modelled from the written specification and marked.   *)
(***************************************************************************)
EXTENDS Integers, Sequences, FiniteSets, TLC

VARIABLES gs,      \* the GlobalState account (singleton PDA)
          swap,    \* the pool (SwapVersion) account
          amount,  \* balance of every SPL token account
          supply,  \* supply of the pool-token mint
          last,    \* the request processed last, its result and its pre-state
          nreq     \* number of requests processed

vars == <<gs, swap, amount, supply, last, nreq>>

----------------------------------------------------------------------------
(* Bounds of the model *)

\* u64::MAX scaled down so that narrowing and supply overflow are reachable
U64Max == 1048575
\* balances funded before the first request
InitReserveA == 4
InitReserveB == 5
InitUserA == 3
InitUserB == 4
\* length of the runs explored
MaxRequests == 4
\* largest amount a request names
MaxAmount == 2
\* initial_supply values a Configure names: above and below MIN_LP_SUPPLY
SupplyHigh == 200000
SupplyLow == 0
\* pool-token amounts a withdrawal names besides 0
BurnSmall == 50000
BurnLarge == 150000
\* trade fee numerator a Configure names besides the floor's
FeeNumerator == 2500
LaterVersion == 2
\* the number of values of a byte, scaled from 256 so that an 8-byte integer
\* stays below 2^31
ByteValues == 13

(* Program constants *)
MIN_LP_SUPPLY == 100000
MINIMUM_FEES_NUMERATOR == 0
MINIMUM_FEES_DENOMINATOR == 10000
POOL_MINT_DECIMALS == 8
SWAP_V1 == 1

Ok == "Ok"
None == "None"
NoKey == "11111111111111111111111111111111"   \* Pubkey::default()

----------------------------------------------------------------------------
(* Addresses *)

PROGRAM_ID == "swap_program"
TOKEN_PROGRAM == "token_program"
SYSTEM_PROGRAM_ID == NoKey
RENT_SYSVAR_ID == "SysvarRent"
INITIAL_PROGRAM_OWNER == "AMMAE3eV"
GS_PDA == "gs_pda"          \* find_program_address([SWAP_TAG, program_id])
POOL == "pool"
AUTHORITY == "authority"    \* create_program_address([POOL, 255])
LP_MINT == "lpMint"

TokenAccounts ==
    {"resA", "resB", "resA2", "userA", "userB", "userLP", "feeAcct",
     "resA_delegated", "resA_closable", "resA_frozen", "resA_empty", "lpAuth"}

\* the pool-token mint and mints an Initialize may name in its place
Mints == {LP_MINT, "lpMint_frozen", "lpMint_dec6", "lpMint_foreign", "lpMint_issued"}

\* static part of the SPL token accounts (spl_token::state::Account)
TokenMint(k) ==
    CASE k \in {"resA", "resA2", "userA", "resA_delegated", "resA_closable",
                "resA_frozen", "resA_empty"} -> "mintA"
      [] k \in {"resB", "userB"} -> "mintB"
      [] OTHER -> LP_MINT

TokenOwner(k) ==
    CASE k \in {"resA", "resB", "resA2", "resA_delegated", "resA_closable",
                "resA_frozen", "resA_empty", "lpAuth"} -> AUTHORITY
      [] k = "feeAcct" -> "feeOwner"
      [] OTHER -> "user"

\* owner program of an account (AccountInfo::owner)
AccountOwner(k) ==
    CASE k \in TokenAccounts \cup Mints -> TOKEN_PROGRAM
      [] k \in {POOL, GS_PDA} -> PROGRAM_ID
      [] OTHER -> SYSTEM_PROGRAM_ID

(* Pubkey::create_program_address(&[swap, [nonce]], program_id): the bump 255 *)
(* gives the pool authority, 254 another off-curve address, any other bump is *)
(* on the curve and fails.                                                     *)
authority_id(program_id, my_info, nonce) ==
    IF program_id = PROGRAM_ID /\ my_info = POOL /\ nonce = 255 THEN AUTHORITY
    ELSE IF nonce = 254 THEN "authority_254"
    ELSE "InvalidProgramAddress"

\* faulty variant: any account accepted as the global state
check_pda_any(program_id, key) == Ok

check_pda(program_id, key) ==
    IF key # GS_PDA THEN "InvalidPdaAddress" ELSE Ok

----------------------------------------------------------------------------
(* Results *)

\* `calls` lists the token instructions a handler has had carried out, in the
\* order it issued them; it is empty when a handler starts
State == [gs |-> gs, swap |-> swap, amount |-> amount, supply |-> supply,
          calls |-> << >>]

Res(e, s) == [err |-> e, s |-> s]

\* to_u64 fails with ConversionFailure on a value that does not fit
fits_u64(v) == v <= U64Max

----------------------------------------------------------------------------
(* The token ledger, called through invoke_signed.  `signed` are the keys   *)
(* that sign the inner instruction: the transaction's signers and the       *)
(* program address the seeds [swap, nonce] derive.                          *)

Called(s, call) == [s EXCEPT !.calls = Append(@, call)]

TransferCall(source, destination, amt) ==
    [ix |-> "Transfer", from |-> source, to |-> destination, amount |-> amt]

MintToCall(mint, destination, amt) ==
    [ix |-> "MintTo", from |-> mint, to |-> destination, amount |-> amt]

BurnCall(burn_account, mint, amt) ==
    [ix |-> "Burn", from |-> burn_account, to |-> mint, amount |-> amt]

token_transfer(s, source, destination, authority, signed, amt) ==
    IF source \notin TokenAccounts \/ destination \notin TokenAccounts
    THEN Res("InvalidAccountData", s)
    ELSE IF s.amount[source] < amt THEN Res("InsufficientFunds", s)
    ELSE IF TokenMint(source) # TokenMint(destination) THEN Res("MintMismatch", s)
    ELSE IF TokenOwner(source) # authority THEN Res("OwnerMismatch", s)
    ELSE IF authority \notin signed THEN Res("MissingRequiredSignature", s)
    ELSE IF source = destination
    THEN Res(Ok, Called(s, TransferCall(source, destination, amt)))
    ELSE IF s.amount[destination] + amt > U64Max THEN Res("Overflow", s)
    ELSE Res(Ok, [Called(s, TransferCall(source, destination, amt))
                      EXCEPT !.amount = [@ EXCEPT ![source] = @ - amt,
                                                  ![destination] = @ + amt]])

\* faulty variant: the mint instruction not issued
token_mint_to_skipped(s, mint, destination, authority, signed, amt) == Res(Ok, s)

token_mint_to(s, mint, destination, authority, signed, amt) ==
    IF mint # LP_MINT \/ destination \notin TokenAccounts
    THEN Res("InvalidAccountData", s)
    ELSE IF TokenMint(destination) # mint THEN Res("MintMismatch", s)
    ELSE IF authority # AUTHORITY THEN Res("OwnerMismatch", s)
    ELSE IF authority \notin signed THEN Res("MissingRequiredSignature", s)
    ELSE IF s.supply + amt > U64Max THEN Res("Overflow", s)
    ELSE Res(Ok, [Called(s, MintToCall(mint, destination, amt))
                      EXCEPT !.amount = [@ EXCEPT ![destination] = @ + amt],
                             !.supply = @ + amt])

\* faulty variant: the burn takes the tokens and leaves the mint's supply
token_burn_supply_kept(s, burn_account, mint, authority, signed, amt) ==
    IF mint # LP_MINT \/ burn_account \notin TokenAccounts
       \/ s.amount[burn_account] < amt
    THEN Res("InvalidAccountData", s)
    ELSE Res(Ok, [Called(s, BurnCall(burn_account, mint, amt))
                      EXCEPT !.amount = [@ EXCEPT ![burn_account] = @ - amt]])

token_burn(s, burn_account, mint, authority, signed, amt) ==
    IF mint # LP_MINT \/ burn_account \notin TokenAccounts
    THEN Res("InvalidAccountData", s)
    ELSE IF s.amount[burn_account] < amt THEN Res("InsufficientFunds", s)
    ELSE IF TokenMint(burn_account) # mint THEN Res("MintMismatch", s)
    ELSE IF TokenOwner(burn_account) # authority THEN Res("OwnerMismatch", s)
    ELSE IF authority \notin signed THEN Res("MissingRequiredSignature", s)
    ELSE Res(Ok, [Called(s, BurnCall(burn_account, mint, amt))
                      EXCEPT !.amount = [@ EXCEPT ![burn_account] = @ - amt],
                             !.supply = @ - amt])

----------------------------------------------------------------------------
(* Policy constraints *)

VALID_CURVE_TYPES == {"ConstantPrice", "ConstantProduct"}

validate_curve(swap_curve) ==
    IF swap_curve.curve_type \in VALID_CURVE_TYPES THEN Ok ELSE "UnsupportedCurveType"

\* faulty variant: any fees accepted
validate_fees_unchecked(fees) == Ok

validate_fees(fees) ==
    IF /\ fees.trade_fee_numerator >= MINIMUM_FEES_NUMERATOR
       /\ fees.trade_fee_denominator = MINIMUM_FEES_DENOMINATOR
    THEN Ok ELSE "InvalidFee"

(* Curve engine, from the written specification (crate::curve is not in the *)
(* sources).                                                                 *)

\* Fees::validate: the denominator must be nonzero
Fees_validate(fees) ==
    IF fees.trade_fee_denominator = 0 THEN "InvalidFee" ELSE Ok

\* CurveCalculator::validate: the strategies carry no parameter to reject
Calculator_validate(swap_curve) == Ok

\* CurveCalculator::validate_supply: no zero reserve on either side
validate_supply(token_a_amount, token_b_amount) ==
    IF token_a_amount = 0 \/ token_b_amount = 0 THEN "EmptySupply" ELSE Ok

\* CurveCalculator::allows_deposits: the fixed-price strategy rejects
\* proportional deposits
allows_deposits(swap_curve) == swap_curve.curve_type # "ConstantPrice"

----------------------------------------------------------------------------
(* GlobalState *)

GlobalStateZero ==
    [data_empty |-> FALSE, is_initialized |-> FALSE, owner |-> NoKey,
     fee_owner |-> NoKey, initial_supply |-> 0, lp_decimals |-> 0,
     fees |-> [trade_fee_numerator |-> 0, trade_fee_denominator |-> 0],
     swap_curve |-> [curve_type |-> "ConstantProduct"]]

\* create_or_allocate_account_raw: the PDA gets zeroed storage
create_or_allocate_account_raw(s) == [s EXCEPT !.gs = GlobalStateZero]

\* faulty variant: the bootstrap leaves the owner unset
Bootstrapped_without_owner(g) ==
    IF g.is_initialized = FALSE THEN [g EXCEPT !.is_initialized = TRUE] ELSE g

\* the record the owner check reads: bootstrapped in memory when the stored
\* one is not initialized
Bootstrapped(g) ==
    IF g.is_initialized = FALSE
    THEN [g EXCEPT !.owner = INITIAL_PROGRAM_OWNER, !.is_initialized = TRUE]
    ELSE g

\* faulty variant: the owner check left out
owner_mismatch_skipped(global_state, current_owner) == FALSE

\* the caller must be the owner of the (bootstrapped) record
owner_mismatch(global_state, current_owner) == global_state.owner # current_owner

process_set_global_state(s0, q) ==
    IF check_pda(PROGRAM_ID, q.global_state) # Ok THEN Res("InvalidPdaAddress", s0)
    ELSE IF ~q.is_signer THEN Res("InvalidSigner", s0)
    ELSE IF q.system # SYSTEM_PROGRAM_ID THEN Res("InvalidSystemProgramId", s0)
    ELSE IF q.rent # RENT_SYSVAR_ID THEN Res("InvalidRentSysvarId", s0)
    ELSE
      LET s == IF s0.gs.data_empty THEN create_or_allocate_account_raw(s0) ELSE s0
          global_state == Bootstrapped(s.gs)
      IN  IF owner_mismatch(global_state, q.current_owner)
          THEN Res("InvalidProgramOwner", s)
          ELSE IF validate_curve(q.swap_curve) # Ok THEN Res(validate_curve(q.swap_curve), s)
          ELSE IF validate_fees(q.fees) # Ok THEN Res(validate_fees(q.fees), s)
          ELSE IF Fees_validate(q.fees) # Ok THEN Res(Fees_validate(q.fees), s)
          ELSE IF Calculator_validate(q.swap_curve) # Ok
               THEN Res(Calculator_validate(q.swap_curve), s)
          \* obj names no lp_decimals: the record's lp_decimals stays as stored
          ELSE Res(Ok, [s EXCEPT !.gs =
                   [data_empty |-> FALSE, is_initialized |-> TRUE,
                    initial_supply |-> q.initial_supply, owner |-> q.owner,
                    fee_owner |-> q.fee_owner, lp_decimals |-> s.gs.lp_decimals,
                    fees |-> q.fees, swap_curve |-> q.swap_curve]])

----------------------------------------------------------------------------
(* SPL token accounts and mint as the handlers read them *)

\* one reserve-like account each has a delegate, a close authority, is frozen;
\* one mint each has a freeze authority, other decimals, another authority,
\* tokens already issued
TokenDelegate(k) == IF k = "resA_delegated" THEN "mallory" ELSE None
TokenCloseAuthority(k) == IF k = "resA_closable" THEN "mallory" ELSE None
TokenIsFrozen(k) == k = "resA_frozen"
MintAuthority(k) == IF k = "lpMint_foreign" THEN "mallory" ELSE AUTHORITY
MintFreezeAuthority(k) == IF k = "lpMint_frozen" THEN "mallory" ELSE None
MintDecimals(k) == IF k = "lpMint_dec6" THEN POOL_MINT_DECIMALS - 2 ELSE POOL_MINT_DECIMALS
MintSupply(s, k) == IF k = LP_MINT THEN s.supply ELSE IF k = "lpMint_issued" THEN 1 ELSE 0

\* faulty variant: a delegate on a reserve account overlooked
has_delegate_ignored(k) == FALSE

\* token_a.delegate.is_some() / token_b.delegate.is_some()
has_delegate(k) == TokenDelegate(k) # None

unpack_token_account(k, token_program_id) ==
    IF AccountOwner(k) # token_program_id THEN "IncorrectTokenProgramId"
    ELSE IF k \notin TokenAccounts THEN "ExpectedAccount"
    ELSE Ok

unpack_mint(k, token_program_id) ==
    IF AccountOwner(k) # token_program_id THEN "IncorrectTokenProgramId"
    ELSE IF k \notin Mints THEN "ExpectedMint"
    ELSE Ok

\* the first error of a sequence of checks, Ok when there is none
RECURSIVE FirstErr(_)
FirstErr(es) ==
    IF es = <<>> THEN Ok
    ELSE IF Head(es) # Ok THEN Head(es)
    ELSE FirstErr(Tail(es))

Check(failed, e) == IF failed THEN e ELSE Ok

\* spl_token Account.amount of an unpacked token account
Amount(s, k) == IF k \in TokenAccounts THEN s.amount[k] ELSE 0

----------------------------------------------------------------------------
(* Pool record *)

SwapZero ==
    [version |-> 0, is_initialized |-> FALSE, nonce |-> 0,
     token_program_id |-> NoKey, token_a |-> NoKey, token_b |-> NoKey,
     pool_mint |-> NoKey, token_a_mint |-> NoKey, token_b_mint |-> NoKey]

\* a pool account holding the record of a later layout, which names the same
\* accounts: the version byte is all this program reads of it
SwapLater ==
    [version |-> LaterVersion, is_initialized |-> FALSE, nonce |-> 255,
     token_program_id |-> TOKEN_PROGRAM, token_a |-> "resA", token_b |-> "resB",
     pool_mint |-> LP_MINT, token_a_mint |-> "mintA", token_b_mint |-> "mintB"]

\* faulty variant: a record of any version taken for the current one
SwapVersion_unpack_any(data) == Ok

\* SwapVersion::unpack: only version 1 is known
SwapVersion_unpack(data) ==
    IF data.version = SWAP_V1 THEN Ok ELSE "UninitializedAccount"

\* faulty variant: every record taken for an unused one
SwapVersion_is_initialized_never(data) == FALSE

SwapVersion_is_initialized(data) ==
    IF SwapVersion_unpack(data) = Ok THEN data.is_initialized ELSE FALSE

\* GlobalState::unpack_from_slice: the length must be the record's
GlobalState_unpack(g) == IF g.data_empty THEN "InvalidInstruction" ELSE Ok

\* the data of an account passed as global state: the singleton's, or what
\* whoever created another account wrote into it
ForeignGlobalState ==
    [data_empty |-> FALSE, is_initialized |-> TRUE, owner |-> "mallory",
     fee_owner |-> "feeAcct", initial_supply |-> SupplyHigh,
     lp_decimals |-> POOL_MINT_DECIMALS,
     fees |-> [trade_fee_numerator |-> MINIMUM_FEES_NUMERATOR,
               trade_fee_denominator |-> MINIMUM_FEES_DENOMINATOR],
     swap_curve |-> [curve_type |-> "ConstantProduct"]]

GlobalStateData(s, k) == IF k = GS_PDA THEN s.gs ELSE ForeignGlobalState

\* the data of an account passed as the pool: the pool's, or a copy of an
\* initialized record held by an account of another program
ForeignSwap ==
    [version |-> SWAP_V1, is_initialized |-> TRUE, nonce |-> 255,
     token_program_id |-> TOKEN_PROGRAM, token_a |-> "resA", token_b |-> "resB",
     pool_mint |-> LP_MINT, token_a_mint |-> "mintA", token_b_mint |-> "mintB"]

SwapData(s, k) == IF k = POOL THEN s.swap ELSE ForeignSwap

\* faulty variant: two reserves of one mint accepted
repeated_mint_allowed(token_a, token_b) == FALSE

\* token_a.mint == token_b.mint
repeated_mint(token_a, token_b) == TokenMint(token_a) = TokenMint(token_b)

process_initialize(s, q) ==
    LET state == GlobalStateData(s, q.global_state)
        token_program_id == q.token_program
        derived == authority_id(PROGRAM_ID, q.swap_info, q.nonce)
        signed == q.signers \cup {derived}
        e == FirstErr(<<
            Check(SwapVersion_is_initialized(s.swap), "AlreadyInUse"),
            Check(derived = "InvalidProgramAddress", "InvalidProgramAddress"),
            Check(q.authority # derived, "InvalidProgramAddress"),
            check_pda(PROGRAM_ID, q.global_state),
            GlobalState_unpack(state),
            Check(state.is_initialized = FALSE, "NotInitializedState"),
            unpack_token_account(q.token_a, token_program_id),
            unpack_token_account(q.token_b, token_program_id),
            unpack_token_account(q.fee_account, token_program_id),
            unpack_token_account(q.destination, token_program_id),
            unpack_mint(q.pool_mint, token_program_id),
            Check(q.authority # TokenOwner(q.token_a), "InvalidOwner"),
            Check(q.authority # TokenOwner(q.token_b), "InvalidOwner"),
            Check(q.authority = TokenOwner(q.destination), "InvalidOutputOwner"),
            Check(q.authority = TokenOwner(q.fee_account), "InvalidOutputOwner"),
            Check(q.authority # MintAuthority(q.pool_mint), "InvalidOwner"),
            Check(repeated_mint(q.token_a, q.token_b), "RepeatedMint"),
            validate_supply(Amount(s, q.token_a), Amount(s, q.token_b)),
            Check(has_delegate(q.token_a), "InvalidDelegate"),
            Check(has_delegate(q.token_b), "InvalidDelegate"),
            Check(TokenCloseAuthority(q.token_a) # None, "InvalidCloseAuthority"),
            Check(TokenCloseAuthority(q.token_b) # None, "InvalidCloseAuthority"),
            Check(TokenIsFrozen(q.token_a), "InvalidFreezeAuthority"),
            Check(TokenIsFrozen(q.token_b), "InvalidFreezeAuthority"),
            Check(MintSupply(s, q.pool_mint) # 0, "InvalidSupply"),
            Check(MintFreezeAuthority(q.pool_mint) # None, "InvalidFreezeAuthority"),
            Check(MintDecimals(q.pool_mint) # POOL_MINT_DECIMALS, "MismatchDecimalValidation"),
            Check(q.pool_mint # TokenMint(q.fee_account), "IncorrectPoolMint") >>)
        initial_amount == state.initial_supply
        obj == [version |-> SWAP_V1, is_initialized |-> TRUE, nonce |-> q.nonce,
                token_program_id |-> token_program_id,
                token_a |-> q.token_a, token_b |-> q.token_b,
                pool_mint |-> q.pool_mint,
                token_a_mint |-> TokenMint(q.token_a),
                token_b_mint |-> TokenMint(q.token_b)]
        Pack(s1) == Res(Ok, [s1 EXCEPT !.swap = obj])
    IN  IF e # Ok THEN Res(e, s)
        ELSE LET minted == token_mint_to(s, q.pool_mint, q.destination, q.authority,
                                         signed, initial_amount)
             IN  IF minted.err # Ok THEN minted ELSE Pack(minted.s)

----------------------------------------------------------------------------
(* Curve engine, from the written specification *)

NoTrade == [ok |-> FALSE]

\* SwapCurve::swap: the strategy's output less the fee fraction; None on a
\* zero divisor, an underflow or a zero result
\* (the two strategies modelled price both directions alike)
SwapCurve_swap(source_amount, swap_source_amount, swap_dest_amount, trade_direction, fees, swap_curve) ==
    LET new_source == swap_source_amount + source_amount
        gross == IF swap_curve.curve_type = "ConstantProduct"
                 THEN IF new_source = 0 THEN 0
                      ELSE (source_amount * swap_dest_amount) \div new_source
                 ELSE source_amount
        trade_fee == IF fees.trade_fee_denominator = 0 THEN 0
                     ELSE (gross * fees.trade_fee_numerator) \div fees.trade_fee_denominator
    IN  IF new_source = 0 \/ fees.trade_fee_denominator = 0 \/ trade_fee > gross
           \/ gross - trade_fee = 0
        THEN NoTrade
        ELSE [ok |-> TRUE, dest_amount |-> gross - trade_fee, trade_fee |-> trade_fee,
              owner_fee |-> 0, new_swap_amount |-> new_source]

\* CurveCalculator::pool_tokens_to_trading_tokens with RoundDirection::Floor
pool_tokens_to_trading_tokens(pool_tokens, pool_token_supply, token_a_amount, token_b_amount) ==
    IF pool_token_supply = 0 THEN NoTrade
    ELSE [ok |-> TRUE,
          token_a_amount |-> (pool_tokens * token_a_amount) \div pool_token_supply,
          token_b_amount |-> (pool_tokens * token_b_amount) \div pool_token_supply]

----------------------------------------------------------------------------
(* Swap *)

\* faulty variant: an output equal to the minimum rejected
exceeded_slippage_off_by_one(dest_amount, minimum_amount_out) ==
    dest_amount <= minimum_amount_out

\* result.dest_amount < minimum_amount_out
exceeded_slippage(dest_amount, minimum_amount_out) == dest_amount < minimum_amount_out

\* faulty variant: any token account taken for a reserve of the pool
is_swap_account_any(key, token_swap) == TRUE

\* *key == *token_swap.token_a_account() || *key == *token_swap.token_b_account()
is_swap_account(key, token_swap) == key = token_swap.token_a \/ key = token_swap.token_b

\* faulty variant: every swap priced by the constant-product strategy
state_swap_curve_constant_product(state) == [curve_type |-> "ConstantProduct"]

\* state.swap_curve(): the curve the global state stores
state_swap_curve(state) == state.swap_curve

\* variant: the caller charged the amount_in of the request
source_side_amount_requested(amount_in, result) == amount_in

\* the amount of the transfer from the caller into the source-side reserve:
\* to_u64(result.dest_amount)
source_side_amount(amount_in, result) == result.dest_amount

process_swap(s, q) ==
    LET state == GlobalStateData(s, q.global_state)
        token_swap == SwapData(s, q.swap_info)
        derived == authority_id(PROGRAM_ID, q.swap_info, token_swap.nonce)
        signed == q.signers \cup {derived}
        e == FirstErr(<<
            Check(AccountOwner(q.swap_info) # PROGRAM_ID, "IncorrectProgramId"),
            check_pda(PROGRAM_ID, q.global_state),
            GlobalState_unpack(state),
            Check(state.is_initialized = FALSE, "NotInitializedState"),
            SwapVersion_unpack(token_swap),
            Check(derived = "InvalidProgramAddress", "InvalidProgramAddress"),
            Check(q.authority # derived, "InvalidProgramAddress"),
            Check(~is_swap_account(q.swap_source, token_swap), "IncorrectSwapAccount"),
            Check(~is_swap_account(q.swap_destination, token_swap), "IncorrectSwapAccount"),
            Check(q.swap_source = q.swap_destination, "InvalidInput"),
            Check(q.swap_source = q.source, "InvalidInput"),
            Check(q.swap_destination = q.destination, "InvalidInput"),
            Check(q.pool_mint # token_swap.pool_mint, "IncorrectPoolMint"),
            Check(q.pool_fee_account # state.fee_owner, "IncorrectFeeAccount"),
            Check(q.token_program # token_swap.token_program_id, "IncorrectTokenProgramId"),
            unpack_token_account(q.swap_source, token_swap.token_program_id),
            unpack_token_account(q.swap_destination, token_swap.token_program_id) >>)
        trade_direction == IF q.swap_source = token_swap.token_a THEN "AtoB" ELSE "BtoA"
        result == SwapCurve_swap(q.amount_in, Amount(s, q.swap_source),
                                 Amount(s, q.swap_destination), trade_direction,
                                 state.fees, state_swap_curve(state))
        \* both transfers move result.dest_amount
        ToUser(s1) ==
            IF ~fits_u64(result.dest_amount) THEN Res("ConversionFailure", s1)
            ELSE token_transfer(s1, q.swap_destination, q.destination, q.authority,
                                signed, result.dest_amount)
    IN  IF e # Ok THEN Res(e, s)
        ELSE IF ~result.ok THEN Res("ZeroTradingTokens", s)
        ELSE IF exceeded_slippage(result.dest_amount, q.minimum_amount_out)
             THEN Res("ExceededSlippage", s)
        ELSE IF ~fits_u64(result.dest_amount) THEN Res("ConversionFailure", s)
        ELSE LET paid == token_transfer(s, q.source, q.swap_source,
                                        q.user_transfer_authority, signed,
                                        source_side_amount(q.amount_in, result))
             IN  IF paid.err # Ok THEN paid ELSE ToUser(paid.s)

----------------------------------------------------------------------------
(* Deposit and withdraw *)

\* faulty variant: the accounts of a deposit or withdrawal taken as given
check_accounts_unchecked(token_swap, swap_account_info, authority_info, token_a_info, token_b_info, pool_mint_info, token_program_info, user_token_a_info, user_token_b_info) ==
    Ok

check_accounts(token_swap, swap_account_info, authority_info, token_a_info, token_b_info, pool_mint_info, token_program_info, user_token_a_info, user_token_b_info) ==
    LET derived == authority_id(PROGRAM_ID, swap_account_info, token_swap.nonce)
    IN FirstErr(<<
        Check(AccountOwner(swap_account_info) # PROGRAM_ID, "IncorrectProgramId"),
        Check(derived = "InvalidProgramAddress", "InvalidProgramAddress"),
        Check(authority_info # derived, "InvalidProgramAddress"),
        Check(token_a_info # token_swap.token_a, "IncorrectSwapAccount"),
        Check(token_b_info # token_swap.token_b, "IncorrectSwapAccount"),
        Check(pool_mint_info # token_swap.pool_mint, "IncorrectPoolMint"),
        Check(token_program_info # token_swap.token_program_id, "IncorrectTokenProgramId"),
        Check(token_a_info = user_token_a_info, "InvalidInput"),
        Check(token_b_info = user_token_b_info, "InvalidInput") >>)

NoAmount == [ok |-> FALSE, v |-> 0]

\* faulty variant: the share taken from side A alone
calculate_stable_lp_amount_side_a(total_supply, token_a_amount, token_b_amount, input_a_amount, input_b_amount) ==
    IF token_a_amount = 0 THEN NoAmount
    ELSE [ok |-> TRUE, v |-> (input_a_amount * total_supply) \div token_a_amount]

calculate_stable_lp_amount(total_supply, token_a_amount, token_b_amount, input_a_amount, input_b_amount) ==
    LET total_amount == token_a_amount + token_b_amount
        input_amount == input_a_amount + input_b_amount
    IN  IF total_amount = 0 THEN NoAmount
        ELSE [ok |-> TRUE, v |-> (input_amount * total_supply) \div total_amount]

\* faulty variant: deposits taken under every curve
deposits_unsupported_ignored(swap_curve) == FALSE

\* !calculator.allows_deposits()
deposits_unsupported(swap_curve) == ~allows_deposits(swap_curve)

process_deposit_all_token_types(s, q) ==
    LET state == GlobalStateData(s, q.global_state)
        token_swap == SwapData(s, q.swap_info)
        signed == q.signers \cup {authority_id(PROGRAM_ID, q.swap_info, token_swap.nonce)}
        e == FirstErr(<<
            SwapVersion_unpack(token_swap),
            check_pda(PROGRAM_ID, q.global_state),
            GlobalState_unpack(state),
            Check(state.is_initialized = FALSE, "NotInitializedState"),
            Check(deposits_unsupported(state.swap_curve), "UnsupportedCurveOperation"),
            check_accounts(token_swap, q.swap_info, q.authority, q.token_a, q.token_b,
                           q.pool_mint, q.token_program, q.source_a, q.source_b),
            unpack_token_account(q.token_a, token_swap.token_program_id),
            unpack_token_account(q.token_b, token_swap.token_program_id),
            unpack_mint(q.pool_mint, token_swap.token_program_id) >>)
        pool_amount == calculate_stable_lp_amount(s.supply, Amount(s, q.token_a),
                           Amount(s, q.token_b), q.maximum_token_a_amount,
                           q.maximum_token_b_amount)
        TransferB(s1) == token_transfer(s1, q.source_b, q.token_b,
                             q.user_transfer_authority, signed, q.maximum_token_b_amount)
        MintTo(s1) ==
            IF ~fits_u64(pool_amount.v) THEN Res("ConversionFailure", s1)
            ELSE token_mint_to(s1, q.pool_mint, q.dest, q.authority, signed, pool_amount.v)
    IN  IF e # Ok THEN Res(e, s)
        ELSE IF ~pool_amount.ok THEN Res("ZeroTradingTokens", s)
        ELSE LET ra == token_transfer(s, q.source_a, q.token_a, q.user_transfer_authority,
                                      signed, q.maximum_token_a_amount)
                 rb == IF ra.err # Ok THEN ra ELSE TransferB(ra.s)
             IN  IF rb.err # Ok THEN rb ELSE MintTo(rb.s)

\* faulty variant: pool_token_amount bound to the first maximum
deposit_arguments_with_pool_amount(ins) ==
    [maximum_token_a_amount |-> ins.pool_token_amount,
     maximum_token_b_amount |-> ins.maximum_token_b_amount]

\* what Processor::process takes from a decoded DepositAllTokenTypes:
\* pool_token_amount is not bound
deposit_arguments(ins) ==
    [maximum_token_a_amount |-> ins.maximum_token_a_amount,
     maximum_token_b_amount |-> ins.maximum_token_b_amount]

\* Processor::process, arm DepositAllTokenTypes: the handler is called with
\* the two maxima and the accounts
process_DepositAllTokenTypes(s, ins) ==
    LET args == deposit_arguments(ins)
        q == [f \in (DOMAIN ins) \ {"pool_token_amount"} |->
                IF f \in DOMAIN args THEN args[f] ELSE ins[f]]
    IN  process_deposit_all_token_types(s, q)

Min(a, b) == IF a < b THEN a ELSE b

\* faulty variant: the requested amount burned unclamped
clamp_pool_token_amount_missing(pool_token_amount, max_pool_token_amount) ==
    pool_token_amount

\* the burn amount is kept from taking the supply below MIN_LP_SUPPLY
clamp_pool_token_amount(pool_token_amount, max_pool_token_amount) ==
    Min(pool_token_amount, max_pool_token_amount)

\* faulty variant: an amount equal to the minimum rejected
below_minimum_off_by_one(token_amount, minimum_token_amount) ==
    token_amount <= minimum_token_amount

\* token_a_amount < minimum_token_a_amount / token_b_amount < minimum_token_b_amount
below_minimum(token_amount, minimum_token_amount) == token_amount < minimum_token_amount

\* faulty variant: an amount of one taken for nothing to transfer
transfers_amount_above_one(token_amount) == token_amount > 1

\* if token_a_amount > 0 / if token_b_amount > 0: a zero amount is not transferred
transfers_amount(token_amount) == token_amount > 0

process_withdraw_all_token_types(s, q) ==
    LET state == GlobalStateData(s, q.global_state)
        token_swap == SwapData(s, q.swap_info)
        signed == q.signers \cup {authority_id(PROGRAM_ID, q.swap_info, token_swap.nonce)}
        e == FirstErr(<<
            SwapVersion_unpack(token_swap),
            check_pda(PROGRAM_ID, q.global_state),
            GlobalState_unpack(state),
            Check(state.is_initialized = FALSE, "NotInitializedState"),
            check_accounts(token_swap, q.swap_info, q.authority, q.token_a, q.token_b,
                           q.pool_mint, q.token_program, q.dest_token_a, q.dest_token_b),
            unpack_token_account(q.token_a, token_swap.token_program_id),
            unpack_token_account(q.token_b, token_swap.token_program_id),
            unpack_mint(q.pool_mint, token_swap.token_program_id),
            Check(s.supply < MIN_LP_SUPPLY, "CalculationFailure") >>)
        max_pool_token_amount == s.supply - MIN_LP_SUPPLY
        pool_token_amount == clamp_pool_token_amount(q.pool_token_amount,
                                                     max_pool_token_amount)
        results == pool_tokens_to_trading_tokens(pool_token_amount, s.supply,
                       Amount(s, q.token_a), Amount(s, q.token_b))
        token_a_amount == Min(Amount(s, q.token_a), results.token_a_amount)
        token_b_amount == Min(Amount(s, q.token_b), results.token_b_amount)
        TransferA(s1) ==
            IF transfers_amount(token_a_amount)
            THEN token_transfer(s1, q.token_a, q.dest_token_a, q.authority, signed,
                                token_a_amount)
            ELSE Res(Ok, s1)
        TransferB(s1) ==
            IF transfers_amount(token_b_amount)
            THEN token_transfer(s1, q.token_b, q.dest_token_b, q.authority, signed,
                                token_b_amount)
            ELSE Res(Ok, s1)
    IN  IF e # Ok THEN Res(e, s)
        ELSE IF ~results.ok THEN Res("ZeroTradingTokens", s)
        ELSE IF ~fits_u64(results.token_a_amount) THEN Res("ConversionFailure", s)
        ELSE IF below_minimum(token_a_amount, q.minimum_token_a_amount)
             THEN Res("ExceededSlippage", s)
        ELSE IF token_a_amount = 0 /\ Amount(s, q.token_a) # 0
             THEN Res("ZeroTradingTokens", s)
        ELSE IF ~fits_u64(results.token_b_amount) THEN Res("ConversionFailure", s)
        ELSE IF below_minimum(token_b_amount, q.minimum_token_b_amount)
             THEN Res("ExceededSlippage", s)
        ELSE IF token_b_amount = 0 /\ Amount(s, q.token_b) # 0
             THEN Res("ZeroTradingTokens", s)
        ELSE LET burned == token_burn(s, q.source, q.pool_mint, q.user_transfer_authority,
                                      signed, pool_token_amount)
                 ra == IF burned.err # Ok THEN burned ELSE TransferA(burned.s)
             IN  IF ra.err # Ok THEN ra ELSE TransferB(ra.s)

----------------------------------------------------------------------------
(* Requests: the decoded instruction and the accounts passed with it *)

Fees(n, d) == [trade_fee_numerator |-> n, trade_fee_denominator |-> d]
Curve(c) == [curve_type |-> c]

\* what a Configure asks for: initial_supply, fees, swap_curve
Policies ==
    { [initial_supply |-> SupplyHigh, fees |-> Fees(MINIMUM_FEES_NUMERATOR, MINIMUM_FEES_DENOMINATOR),
       swap_curve |-> Curve("ConstantProduct")],
      [initial_supply |-> SupplyHigh, fees |-> Fees(FeeNumerator, MINIMUM_FEES_DENOMINATOR),
       swap_curve |-> Curve("ConstantProduct")],
      [initial_supply |-> SupplyHigh, fees |-> Fees(MINIMUM_FEES_NUMERATOR, MINIMUM_FEES_DENOMINATOR),
       swap_curve |-> Curve("ConstantPrice")],
      [initial_supply |-> SupplyLow, fees |-> Fees(MINIMUM_FEES_NUMERATOR, MINIMUM_FEES_DENOMINATOR),
       swap_curve |-> Curve("ConstantProduct")] }

BadPolicies ==
    { [initial_supply |-> SupplyHigh, fees |-> Fees(FeeNumerator, FeeNumerator),
       swap_curve |-> Curve("ConstantProduct")],
      [initial_supply |-> SupplyHigh, fees |-> Fees(MINIMUM_FEES_NUMERATOR, MINIMUM_FEES_DENOMINATOR),
       swap_curve |-> Curve("Offset")],
      [initial_supply |-> SupplyHigh, fees |-> Fees(FeeNumerator, FeeNumerator),
       swap_curve |-> Curve("Offset")] }

ConfigureBase(cur, sig, own, pol) ==
    [global_state |-> GS_PDA, current_owner |-> cur, is_signer |-> sig,
     system |-> SYSTEM_PROGRAM_ID, rent |-> RENT_SYSVAR_ID,
     owner |-> own, fee_owner |-> "feeAcct", initial_supply |-> pol.initial_supply,
     lp_decimals |-> POOL_MINT_DECIMALS, fees |-> pol.fees,
     swap_curve |-> pol.swap_curve]

Callers == {INITIAL_PROGRAM_OWNER, "alice"}

ConfigureRequests ==
    LET P0 == [initial_supply |-> SupplyHigh,
               fees |-> Fees(MINIMUM_FEES_NUMERATOR, MINIMUM_FEES_DENOMINATOR),
               swap_curve |-> Curve("ConstantProduct")]
        good == { ConfigureBase(c, TRUE, o, pl) :
                    c \in Callers, o \in Callers, pl \in Policies }
                \cup { ConfigureBase(c, FALSE, o, P0) : c \in Callers, o \in Callers }
        g0 == ConfigureBase(INITIAL_PROGRAM_OWNER, TRUE, INITIAL_PROGRAM_OWNER,
                            CHOOSE pl \in Policies : TRUE)
    IN  good
        \cup { ConfigureBase(c, TRUE, c, pl) : c \in Callers, pl \in BadPolicies }
        \cup { [g0 EXCEPT !.global_state = "gs_fake"],
               [g0 EXCEPT !.system = "sys_fake"],
               [g0 EXCEPT !.rent = "rent_fake"] }

InitializeBase ==
    [swap_info |-> POOL, authority |-> AUTHORITY, global_state |-> GS_PDA,
     token_a |-> "resA", token_b |-> "resB", pool_mint |-> LP_MINT,
     fee_account |-> "feeAcct", destination |-> "userLP",
     token_program |-> TOKEN_PROGRAM, nonce |-> 255, signers |-> {"user"}]

InitializeRequests ==
    { InitializeBase,
      [InitializeBase EXCEPT !.token_b = "resA2"],
      [InitializeBase EXCEPT !.token_a = "resA2"],
      [InitializeBase EXCEPT !.global_state = "gs_fake"],
      [InitializeBase EXCEPT !.nonce = 254],
      [InitializeBase EXCEPT !.nonce = 254, !.authority = "authority_254"],
      [InitializeBase EXCEPT !.destination = "userA"],
      [InitializeBase EXCEPT !.destination = "resA2"],
      [InitializeBase EXCEPT !.token_program = "token_fake"],
      [InitializeBase EXCEPT !.token_a = "resA_delegated"],
      [InitializeBase EXCEPT !.token_a = "resA_closable"],
      [InitializeBase EXCEPT !.token_a = "resA_frozen"],
      [InitializeBase EXCEPT !.token_a = "resA_empty"],
      [InitializeBase EXCEPT !.token_a = "userA"],
      [InitializeBase EXCEPT !.pool_mint = "lpMint_frozen"],
      [InitializeBase EXCEPT !.pool_mint = "lpMint_dec6"],
      [InitializeBase EXCEPT !.pool_mint = "lpMint_foreign"],
      [InitializeBase EXCEPT !.pool_mint = "lpMint_issued"],
      [InitializeBase EXCEPT !.fee_account = "lpAuth"],
      [InitializeBase EXCEPT !.destination = "lpAuth"] }

SwapBase(dir, ain, mout) ==
    [swap_info |-> POOL, authority |-> AUTHORITY, user_transfer_authority |-> "user",
     global_state |-> GS_PDA,
     source |-> IF dir = "AtoB" THEN "userA" ELSE "userB",
     swap_source |-> IF dir = "AtoB" THEN "resA" ELSE "resB",
     swap_destination |-> IF dir = "AtoB" THEN "resB" ELSE "resA",
     destination |-> IF dir = "AtoB" THEN "userB" ELSE "userA",
     pool_mint |-> LP_MINT, pool_fee_account |-> "feeAcct",
     token_program |-> TOKEN_PROGRAM, signers |-> {"user"},
     amount_in |-> ain, minimum_amount_out |-> mout]

SwapRequests ==
    LET good == { SwapBase(d, ain, mout) : d \in {"AtoB", "BtoA"},
                    ain \in {1, MaxAmount},
                    mout \in {0, 1, MaxAmount, MaxAmount + 1} }
                \cup { SwapBase(d, 0, 0) : d \in {"AtoB", "BtoA"} }
        g0 == SwapBase("AtoB", 1, 0)
    IN  good
        \cup { SwapBase("BtoA", InitReserveA, 0) }
        \cup { [g0 EXCEPT !.global_state = "gs_fake"],
               [g0 EXCEPT !.destination = "userA"],
               [g0 EXCEPT !.swap_destination = "resA"],
               [g0 EXCEPT !.swap_source = "resA2"],
               [g0 EXCEPT !.user_transfer_authority = "mallory", !.signers = {"mallory"}],
               [g0 EXCEPT !.signers = {}],
               [g0 EXCEPT !.swap_info = "pool_fake"],
               [g0 EXCEPT !.authority = "mallory"],
               [g0 EXCEPT !.pool_mint = "mintA"],
               [g0 EXCEPT !.token_program = "token_fake"],
               [g0 EXCEPT !.source = "resA"],
               [g0 EXCEPT !.destination = "resB"],
               [g0 EXCEPT !.destination = "resA"],
               [g0 EXCEPT !.global_state = "gs_fake", !.authority = "mallory"],
               [g0 EXCEPT !.swap_info = "pool_fake", !.global_state = "gs_fake"],
               [g0 EXCEPT !.token_program = "token_fake", !.destination = "resB"],
               [g0 EXCEPT !.pool_mint = "mintA", !.swap_destination = "resA"] }

DepositBase(ma, mb) ==
    [swap_info |-> POOL, authority |-> AUTHORITY, global_state |-> GS_PDA,
     user_transfer_authority |-> "user", source_a |-> "userA", source_b |-> "userB",
     token_a |-> "resA", token_b |-> "resB", pool_mint |-> LP_MINT, dest |-> "userLP",
     token_program |-> TOKEN_PROGRAM, signers |-> {"user"},
     pool_token_amount |-> 0,
     maximum_token_a_amount |-> ma, maximum_token_b_amount |-> mb]

DepositRequests ==
    LET good == { DepositBase(ma, mb) : ma \in {0, 1, MaxAmount},
                                        mb \in {0, 1, MaxAmount} }
        g0 == DepositBase(1, 1)
    IN  good
        \cup { DepositBase(0, InitUserB) }
        \cup { [g EXCEPT !.pool_token_amount = BurnSmall] :
                 g \in {g0, DepositBase(MaxAmount, 0)} }
        \cup { [g0 EXCEPT !.global_state = "gs_fake"],
               [g0 EXCEPT !.dest = "userA"],
               [g0 EXCEPT !.source_a = "resA"],
               [g0 EXCEPT !.token_b = "resA2"],
               [g0 EXCEPT !.swap_info = "pool_fake"],
               [g0 EXCEPT !.authority = "mallory"],
               [g0 EXCEPT !.pool_mint = "mintA"],
               [g0 EXCEPT !.token_program = "token_fake"],
               [g0 EXCEPT !.source_b = "userA"],
               [g0 EXCEPT !.global_state = "gs_fake", !.authority = "mallory"],
               [g0 EXCEPT !.swap_info = "pool_fake", !.global_state = "gs_fake"],
               [g0 EXCEPT !.token_program = "token_fake", !.source_a = "resA"] }

WithdrawBase(p, ma, mb) ==
    [swap_info |-> POOL, authority |-> AUTHORITY, global_state |-> GS_PDA,
     user_transfer_authority |-> "user", pool_mint |-> LP_MINT, source |-> "userLP",
     token_a |-> "resA", token_b |-> "resB",
     dest_token_a |-> "userA", dest_token_b |-> "userB",
     token_program |-> TOKEN_PROGRAM, signers |-> {"user"},
     pool_token_amount |-> p, minimum_token_a_amount |-> ma,
     minimum_token_b_amount |-> mb]

WithdrawRequests ==
    LET good == { WithdrawBase(p, ma, mb) : p \in {0, BurnSmall, BurnLarge},
                    ma \in {0, MaxAmount}, mb \in {0, MaxAmount} }
        g0 == WithdrawBase(BurnSmall, 0, 0)
    IN  good
        \cup { [g0 EXCEPT !.global_state = "gs_fake"],
               [g0 EXCEPT !.dest_token_b = "userA"],
               [g0 EXCEPT !.dest_token_a = "resA"],
               [g0 EXCEPT !.pool_mint = "mintA"],
               [g0 EXCEPT !.swap_info = "pool_fake"],
               [g0 EXCEPT !.authority = "mallory"],
               [g0 EXCEPT !.token_a = "resA2"],
               [g0 EXCEPT !.token_program = "token_fake"],
               [g0 EXCEPT !.global_state = "gs_fake", !.authority = "mallory"],
               [g0 EXCEPT !.swap_info = "pool_fake", !.global_state = "gs_fake"],
               [g0 EXCEPT !.token_program = "token_fake", !.dest_token_a = "resA"] }

----------------------------------------------------------------------------
(* Wire formats: byte sequences, a byte being one of ByteValues values *)

Bytes == 0..(ByteValues - 1)

U64_LEN == 8
PUBKEY_LEN == 32
Fees_LEN == 40
SwapCurve_LEN == 33
SwapV1_LEN == 227
GlobalState_LEN == 114

\* the largest value U64_LEN bytes hold
WireU64Max == ByteValues ^ U64_LEN - 1

\* slice.split_at(n) where n <= len: the two parts
Take(b, n) == SubSeq(b, 1, n)
Drop(b, n) == SubSeq(b, n + 1, Len(b))

\* u64::to_le_bytes: least significant byte first
to_le_bytes(v) == [i \in 1..U64_LEN |-> (v \div (ByteValues ^ (i - 1))) % ByteValues]

\* u64::from_le_bytes
RECURSIVE from_le_bytes(_)
from_le_bytes(b) == IF b = <<>> THEN 0 ELSE Head(b) + ByteValues * from_le_bytes(Tail(b))

\* faulty variant: the eight bytes read most significant first
unpack_u64_big_endian(input) ==
    IF Len(input) >= U64_LEN
    THEN [err |-> Ok,
          amount |-> from_le_bytes([i \in 1..U64_LEN |-> input[U64_LEN + 1 - i]]),
          rest |-> Drop(input, U64_LEN)]
    ELSE [err |-> "InvalidInstruction", amount |-> 0, rest |-> <<>>]

unpack_u64(input) ==
    IF Len(input) >= U64_LEN
    THEN [err |-> Ok, amount |-> from_le_bytes(Take(input, U64_LEN)),
          rest |-> Drop(input, U64_LEN)]
    ELSE [err |-> "InvalidInstruction", amount |-> 0, rest |-> <<>>]

\* Fees as Pack: five 8-byte words, the trade fee's numerator and denominator
\* first
Fees_pack_into_slice(fees) ==
    to_le_bytes(fees.trade_fee_numerator) \o to_le_bytes(fees.trade_fee_denominator)
        \o to_le_bytes(fees.other[1]) \o to_le_bytes(fees.other[2])
        \o to_le_bytes(fees.other[3])

Fees_unpack_from_slice(input) ==
    [trade_fee_numerator |-> from_le_bytes(SubSeq(input, 1, 8)),
     trade_fee_denominator |-> from_le_bytes(SubSeq(input, 9, 16)),
     other |-> << from_le_bytes(SubSeq(input, 17, 24)),
                  from_le_bytes(SubSeq(input, 25, 32)),
                  from_le_bytes(SubSeq(input, 33, 40)) >>]

\* SwapCurve as Pack: the curve type's byte, then the calculator's 32 bytes
CurveTypeBytes == 0..3

SwapCurve_pack_into_slice(swap_curve) == <<swap_curve.curve_type>> \o swap_curve.calculator

SwapCurve_unpack_from_slice(input) ==
    IF input[1] \notin CurveTypeBytes
    THEN [err |-> "InvalidAccountData", v |-> None]
    ELSE [err |-> Ok,
          v |-> [curve_type |-> input[1], calculator |-> SubSeq(input, 2, SwapCurve_LEN)]]

\* Pack::unpack_unchecked: the length must be the type's LEN
SwapCurve_unpack_unchecked(input) ==
    IF Len(input) # SwapCurve_LEN THEN [err |-> "InvalidAccountData", v |-> None]
    ELSE SwapCurve_unpack_from_slice(input)

NoInstruction(e) == [err |-> e, ins |-> None]

\* SwapInstruction::pack
SwapInstruction_pack(ins) ==
    CASE ins.kind = "Initialize" ->
             <<0>> \o SwapCurve_pack_into_slice(ins.swap_curve)
      [] ins.kind = "Swap" ->
             <<1>> \o to_le_bytes(ins.amount_in) \o to_le_bytes(ins.minimum_amount_out)
      [] ins.kind = "DepositAllTokenTypes" ->
             <<2>> \o to_le_bytes(ins.pool_token_amount)
                 \o to_le_bytes(ins.maximum_token_a_amount)
                 \o to_le_bytes(ins.maximum_token_b_amount)
      [] ins.kind = "WithdrawAllTokenTypes" ->
             <<3>> \o to_le_bytes(ins.pool_token_amount)
                 \o to_le_bytes(ins.minimum_token_a_amount)
                 \o to_le_bytes(ins.minimum_token_b_amount)
      [] ins.kind = "SetGlobalStateInstruction" ->
             <<4>> \o ins.owner \o ins.fee_owner \o to_le_bytes(ins.initial_supply)
                 \o <<ins.lp_decimals>> \o Fees_pack_into_slice(ins.fees)

unpack_Initialize(rest) ==
    LET c == SwapCurve_unpack_unchecked(rest)
    IN  IF c.err # Ok THEN NoInstruction(c.err)
        ELSE [err |-> Ok, ins |-> [kind |-> "Initialize", swap_curve |-> c.v]]

unpack_Swap(rest) ==
    LET a == unpack_u64(rest)
        b == unpack_u64(a.rest)
    IN  IF a.err # Ok THEN NoInstruction(a.err)
        ELSE IF b.err # Ok THEN NoInstruction(b.err)
        ELSE [err |-> Ok, ins |-> [kind |-> "Swap", amount_in |-> a.amount,
                                   minimum_amount_out |-> b.amount]]

unpack_DepositAllTokenTypes(rest) ==
    LET p == unpack_u64(rest)
        a == unpack_u64(p.rest)
        b == unpack_u64(a.rest)
    IN  IF p.err # Ok THEN NoInstruction(p.err)
        ELSE IF a.err # Ok THEN NoInstruction(a.err)
        ELSE IF b.err # Ok THEN NoInstruction(b.err)
        ELSE [err |-> Ok, ins |-> [kind |-> "DepositAllTokenTypes",
                                   pool_token_amount |-> p.amount,
                                   maximum_token_a_amount |-> a.amount,
                                   maximum_token_b_amount |-> b.amount]]

unpack_WithdrawAllTokenTypes(rest) ==
    LET p == unpack_u64(rest)
        a == unpack_u64(p.rest)
        b == unpack_u64(a.rest)
    IN  IF p.err # Ok THEN NoInstruction(p.err)
        ELSE IF a.err # Ok THEN NoInstruction(a.err)
        ELSE IF b.err # Ok THEN NoInstruction(b.err)
        ELSE [err |-> Ok, ins |-> [kind |-> "WithdrawAllTokenTypes",
                                   pool_token_amount |-> p.amount,
                                   minimum_token_a_amount |-> a.amount,
                                   minimum_token_b_amount |-> b.amount]]

\* rest.split_at(32) panics on a slice shorter than 32 bytes
unpack_SetGlobalState(rest) ==
    IF Len(rest) < PUBKEY_LEN THEN NoInstruction("Panic")
    ELSE IF Len(Drop(rest, PUBKEY_LEN)) < PUBKEY_LEN THEN NoInstruction("Panic")
    ELSE
      LET owner == Take(rest, PUBKEY_LEN)
          fee_owner == Take(Drop(rest, PUBKEY_LEN), PUBKEY_LEN)
          s == unpack_u64(Drop(rest, 2 * PUBKEY_LEN))
      IN  IF s.err # Ok THEN NoInstruction(s.err)
          ELSE IF s.rest = <<>> THEN NoInstruction("InvalidInstruction")
          ELSE IF Len(Tail(s.rest)) >= Fees_LEN
               THEN [err |-> Ok,
                     ins |-> [kind |-> "SetGlobalStateInstruction", owner |-> owner,
                              fee_owner |-> fee_owner, initial_supply |-> s.amount,
                              lp_decimals |-> Head(s.rest),
                              fees |-> Fees_unpack_from_slice(Take(Tail(s.rest), Fees_LEN))]]
               ELSE NoInstruction("InvalidInstruction")

\* SwapInstruction::unpack
SwapInstruction_unpack(input) ==
    IF input = <<>> THEN NoInstruction("InvalidInstruction")
    ELSE LET tag == Head(input)
             rest == Tail(input)
         IN  CASE tag = 0 -> unpack_Initialize(rest)
               [] tag = 1 -> unpack_Swap(rest)
               [] tag = 2 -> unpack_DepositAllTokenTypes(rest)
               [] tag = 3 -> unpack_WithdrawAllTokenTypes(rest)
               [] tag = 4 -> unpack_SetGlobalState(rest)
               [] OTHER -> NoInstruction("InvalidInstruction")

\* is_initialized as u8
bool_byte(b) == IF b THEN 1 ELSE 0

NoRecord(e) == [err |-> e, v |-> None]

\* faulty variant: owner and fee_owner written in each other's place
GlobalState_pack_into_slice_swapped(g) ==
    <<bool_byte(g.is_initialized)>> \o g.fee_owner \o g.owner
        \o to_le_bytes(g.initial_supply) \o <<g.lp_decimals>>
        \o Fees_pack_into_slice(g.fees)

\* GlobalState as Pack: 1, 32, 32, 8, 1, 40 bytes
GlobalState_pack_into_slice(g) ==
    <<bool_byte(g.is_initialized)>> \o g.owner \o g.fee_owner
        \o to_le_bytes(g.initial_supply) \o <<g.lp_decimals>>
        \o Fees_pack_into_slice(g.fees)

GlobalState_unpack_from_slice(input) ==
    IF Len(input) # GlobalState_LEN THEN NoRecord("InvalidInstruction")
    ELSE IF input[1] \notin {0, 1} THEN NoRecord("InvalidAccountData")
    ELSE [err |-> Ok,
          v |-> [is_initialized |-> input[1] = 1,
                 owner |-> SubSeq(input, 2, 33),
                 fee_owner |-> SubSeq(input, 34, 65),
                 initial_supply |-> from_le_bytes(SubSeq(input, 66, 73)),
                 lp_decimals |-> input[74],
                 fees |-> Fees_unpack_from_slice(SubSeq(input, 75, 114))]]

\* SwapV1 as Pack: 1, 1, 32, 32, 32, 32, 32, 32, 33 bytes
SwapV1_pack_into_slice(v) ==
    <<bool_byte(v.is_initialized), v.nonce>> \o v.token_program_id \o v.token_a
        \o v.token_b \o v.pool_mint \o v.token_a_mint \o v.token_b_mint
        \o SwapCurve_pack_into_slice(v.swap_curve)

SwapV1_unpack_from_slice(input) ==
    IF Len(input) < SwapV1_LEN THEN NoRecord("MaxSeedLengthExceeded")
    ELSE IF input[1] \notin {0, 1} THEN NoRecord("InvalidAccountData")
    ELSE LET c == SwapCurve_unpack_from_slice(SubSeq(input, 195, 227))
         IN  IF c.err # Ok THEN NoRecord(c.err)
             ELSE [err |-> Ok,
                   v |-> [is_initialized |-> input[1] = 1,
                          nonce |-> input[2],
                          token_program_id |-> SubSeq(input, 3, 34),
                          token_a |-> SubSeq(input, 35, 66),
                          token_b |-> SubSeq(input, 67, 98),
                          pool_mint |-> SubSeq(input, 99, 130),
                          token_a_mint |-> SubSeq(input, 131, 162),
                          token_b_mint |-> SubSeq(input, 163, 194),
                          swap_curve |-> c.v]]

(* Instruction data SwapInstruction::unpack does not decode: the error it  *)
(* returns.                                                                  *)
unpack_failure(input) == SwapInstruction_unpack(input).err

UndecodableInputs ==
    { in \in {<<>>} \cup { <<tag>> \o pad : tag \in 1..5, pad \in {<<>>, <<0>>} } :
        unpack_failure(in) # Ok }

----------------------------------------------------------------------------
(* The state machine *)

Init ==
    /\ gs = [GlobalStateZero EXCEPT !.data_empty = TRUE]
    /\ swap \in {SwapZero, SwapLater}
    /\ amount = [k \in TokenAccounts |->
                    CASE k \in {"resA", "resA2", "resA_delegated", "resA_closable",
                                "resA_frozen"} -> InitReserveA
                      [] k = "resB" -> InitReserveB
                      [] k = "userA" -> InitUserA
                      [] k = "userB" -> InitUserB
                      [] OTHER -> 0]
    /\ supply = 0
    /\ last = [op |-> "None", err |-> Ok, req |-> [signers |-> {}], pre |-> State]
    /\ nreq = 0

\* faulty variant: the account changes of a failed instruction kept
CommitAlways(op, q, r) ==
    /\ nreq < MaxRequests
    /\ nreq' = nreq + 1
    /\ gs' = r.s.gs
    /\ swap' = r.s.swap
    /\ amount' = r.s.amount
    /\ supply' = r.s.supply
    /\ last' = [op |-> op, err |-> r.err, req |-> q, pre |-> State]

\* Processor::process hands the handler's result to the host, which keeps the
\* account changes of a successful instruction and drops those of a failed one
Commit(op, q, r) ==
    LET s == IF r.err = Ok THEN r.s ELSE State
    IN  /\ nreq < MaxRequests
        /\ nreq' = nreq + 1
        /\ gs' = s.gs
        /\ swap' = s.swap
        /\ amount' = s.amount
        /\ supply' = s.supply
        /\ last' = [op |-> op, err |-> r.err, req |-> q, pre |-> State]

Configure ==
    \E q \in ConfigureRequests : Commit("Configure", q, process_set_global_state(State, q))

Initialize ==
    \E q \in InitializeRequests : Commit("Initialize", q, process_initialize(State, q))

Swap ==
    \E q \in SwapRequests : Commit("Swap", q, process_swap(State, q))

DepositAllTokenTypes ==
    \E q \in DepositRequests :
        Commit("DepositAllTokenTypes", q, process_DepositAllTokenTypes(State, q))

\* the request of a depositor who redeems what the deposit before has minted
RedeemRequests ==
    IF last.op = "DepositAllTokenTypes" /\ last.err = Ok
    THEN {WithdrawBase(supply - last.pre.supply, 0, 0)}
    ELSE {}

WithdrawAllTokenTypes ==
    \E q \in WithdrawRequests \cup RedeemRequests :
        Commit("WithdrawAllTokenTypes", q, process_withdraw_all_token_types(State, q))

\* instruction data that does not decode: no handler runs
Undecodable ==
    \E in \in UndecodableInputs :
        Commit("Undecodable", [input |-> in], Res(unpack_failure(in), State))

Next ==
    \/ Undecodable
    \/ Configure
    \/ Initialize
    \/ Swap
    \/ DepositAllTokenTypes
    \/ WithdrawAllTokenTypes

Spec == Init /\ [][Next]_vars

----------------------------------------------------------------------------
(* The codecs as a state machine: a value is packed into a buffer, the      *)
(* buffer may be cut short, lengthened or have its first byte overwritten,   *)
(* and is then unpacked.  last holds the value, the buffer and the result.   *)

U64Samples == {0, 1, ByteValues - 1, ByteValues, WireU64Max}

ByteSamples == {0, 1, ByteValues - 1}

PubkeySamples ==
    { [i \in 1..PUBKEY_LEN |-> 0], [i \in 1..PUBKEY_LEN |-> ByteValues - 1],
      [i \in 1..PUBKEY_LEN |-> i % ByteValues] }

FeesSamples ==
    { [trade_fee_numerator |-> 0, trade_fee_denominator |-> 0, other |-> <<0, 0, 0>>],
      [trade_fee_numerator |-> 1, trade_fee_denominator |-> ByteValues,
       other |-> <<0, 1, WireU64Max>>],
      [trade_fee_numerator |-> WireU64Max, trade_fee_denominator |-> WireU64Max,
       other |-> <<WireU64Max, WireU64Max, WireU64Max>>] }

SwapCurveSamples ==
    { [curve_type |-> c, calculator |-> [i \in 1..(SwapCurve_LEN - 1) |-> b]] :
        c \in {0, 1}, b \in {0, ByteValues - 1} }

InstructionSamples ==
    { [kind |-> "Initialize", swap_curve |-> c] : c \in SwapCurveSamples }
    \cup { [kind |-> "Swap", amount_in |-> a, minimum_amount_out |-> m] :
             a \in U64Samples, m \in U64Samples }
    \cup { [kind |-> "DepositAllTokenTypes", pool_token_amount |-> p,
            maximum_token_a_amount |-> a, maximum_token_b_amount |-> b] :
             p \in U64Samples, a \in U64Samples, b \in U64Samples }
    \cup { [kind |-> "WithdrawAllTokenTypes", pool_token_amount |-> p,
            minimum_token_a_amount |-> a, minimum_token_b_amount |-> b] :
             p \in U64Samples, a \in U64Samples, b \in U64Samples }
    \cup { [kind |-> "SetGlobalStateInstruction", owner |-> o, fee_owner |-> f,
            initial_supply |-> n, lp_decimals |-> d, fees |-> fe] :
             o \in PubkeySamples, f \in PubkeySamples, n \in U64Samples,
             d \in ByteSamples, fe \in FeesSamples }

GlobalStateSamples ==
    { [is_initialized |-> i, owner |-> o, fee_owner |-> f, initial_supply |-> n,
       lp_decimals |-> d, fees |-> fe] :
        i \in BOOLEAN, o \in PubkeySamples, f \in PubkeySamples, n \in U64Samples,
        d \in ByteSamples, fe \in FeesSamples }

SwapV1Samples ==
    { [is_initialized |-> i, nonce |-> n, token_program_id |-> k, token_a |-> a,
       token_b |-> k, pool_mint |-> a, token_a_mint |-> k, token_b_mint |-> a,
       swap_curve |-> c] :
        i \in BOOLEAN, n \in ByteSamples, k \in PubkeySamples, a \in PubkeySamples,
        c \in SwapCurveSamples }

\* the values whose buffers are also damaged before they are unpacked
DamagedSamples ==
    { v \in InstructionSamples \cup GlobalStateSamples \cup SwapV1Samples :
        /\ v \in InstructionSamples =>
              \A f \in (DOMAIN v) \ {"kind", "swap_curve", "fees", "owner",
                                       "fee_owner"} : v[f] = 1
        /\ "swap_curve" \in DOMAIN v =>
              v.swap_curve = [curve_type |-> 1,
                              calculator |-> [i \in 1..(SwapCurve_LEN - 1) |-> 0]]
        /\ "fees" \in DOMAIN v => v.fees.trade_fee_numerator = 1
        /\ "owner" \in DOMAIN v =>
              v.owner = [i \in 1..PUBKEY_LEN |-> 0] /\ v.fee_owner = v.owner
        /\ v \in GlobalStateSamples => v.initial_supply = 1 /\ v.lp_decimals = 1
        /\ v \in SwapV1Samples =>
              /\ v.nonce = 1
              /\ v.token_a = [i \in 1..PUBKEY_LEN |-> 0]
              /\ v.token_b = v.token_a }

\* the first bytes each kind of buffer may begin with
FirstBytes(kind) == IF kind = "SwapInstruction" THEN 0..4 ELSE {0, 1}

Decode(kind, bytes) ==
    CASE kind = "SwapInstruction" ->
             LET r == SwapInstruction_unpack(bytes) IN [err |-> r.err, v |-> r.ins]
      [] kind = "GlobalState" -> GlobalState_unpack_from_slice(bytes)
      [] kind = "SwapV1" -> SwapV1_unpack_from_slice(bytes)

\* a run follows one buffer from pack to unpack
Packed(kind, v, bytes) ==
    /\ last.op = "None"
    /\ last' = [op |-> "pack", kind |-> kind, value |-> v, bytes |-> bytes,
                damage |-> "none", result |-> NoRecord(Ok)]
    /\ UNCHANGED <<gs, swap, amount, supply, nreq>>

PackInstruction ==
    \E ins \in InstructionSamples :
        Packed("SwapInstruction", ins, SwapInstruction_pack(ins))

PackGlobalState ==
    \E g \in GlobalStateSamples : Packed("GlobalState", g, GlobalState_pack_into_slice(g))

PackSwapV1 ==
    \E v \in SwapV1Samples : Packed("SwapV1", v, SwapV1_pack_into_slice(v))

Damaged(bytes, damage) ==
    /\ last.op = "pack"
    /\ last.value \in DamagedSamples
    /\ last' = [last EXCEPT !.op = "damage", !.bytes = bytes, !.damage = damage]
    /\ UNCHANGED <<gs, swap, amount, supply, nreq>>

Truncate ==
    /\ last.op = "pack"
    /\ \E n \in 0..(Len(last.bytes) - 1) : Damaged(Take(last.bytes, n), "truncated")

Lengthen ==
    /\ last.op = "pack"
    /\ \E b \in ByteSamples : Damaged(last.bytes \o <<b>>, "lengthened")

OverwriteFirstByte ==
    /\ last.op = "pack"
    /\ \E b \in Bytes \ FirstBytes(last.kind) :
           Damaged([last.bytes EXCEPT ![1] = b], "first byte")

Unpack ==
    /\ last.op \in {"pack", "damage"}
    /\ last' = [last EXCEPT !.op = "unpack", !.result = Decode(last.kind, last.bytes)]
    /\ UNCHANGED <<gs, swap, amount, supply, nreq>>

CodecInit == Init /\ swap = SwapZero

CodecNext ==
    \/ PackInstruction
    \/ PackGlobalState
    \/ PackSwapV1
    \/ Truncate
    \/ Lengthen
    \/ OverwriteFirstByte
    \/ Unpack

CodecSpec == CodecInit /\ [][CodecNext]_vars

----------------------------------------------------------------------------
(* Properties *)

Unchanged == State = last.pre

\* the account data of a handler's final state
Accounts(s) == [s EXCEPT !.calls = << >>]

PoolOps == {"Initialize", "Swap", "DepositAllTokenTypes", "WithdrawAllTokenTypes"}

\* what the handler of the last request had done to the accounts when it returned
HandlerState ==
    CASE last.op = "Configure" -> process_set_global_state(last.pre, last.req).s
      [] last.op = "Initialize" -> process_initialize(last.pre, last.req).s
      [] last.op = "Swap" -> process_swap(last.pre, last.req).s
      [] last.op = "DepositAllTokenTypes" ->
             process_DepositAllTokenTypes(last.pre, last.req).s
      [] last.op = "WithdrawAllTokenTypes" ->
             process_withdraw_all_token_types(last.pre, last.req).s
      [] OTHER -> last.pre

C2_Authorized ==
    /\ last.req.is_signer
    /\ last.req.current_owner =
           IF last.pre.gs.is_initialized THEN last.pre.gs.owner
           ELSE INITIAL_PROGRAM_OWNER

C2_OnlyOwnerConfigures ==
    last.op = "Configure" =>
        /\ gs # last.pre.gs => C2_Authorized
        /\ ~C2_Authorized => last.err # Ok /\ Unchanged

\* the stored owner reconfigured an initialized record
C2_Witness ==
    /\ last.op = "Configure"
    /\ last.pre.gs.is_initialized
    /\ last.err = Ok
    /\ gs # last.pre.gs

(* C2 as stated: a Configure changes GlobalState only if the named current *)
(* owner has signed and equals the owner stored in the record before the   *)
(* request.                                                                 *)
C2_Original ==
    (last.op = "Configure" /\ gs # last.pre.gs) =>
        /\ last.req.is_signer
        /\ last.req.current_owner = last.pre.gs.owner

(* C3: after a successful Swap the source-side reserve has grown by         *)
(* amount_in and the destination-side reserve has shrunk by the computed    *)
(* output; the caller's source account has lost amount_in and the caller's  *)
(* destination account has gained the output.                               *)
SwapOutput ==
    SwapCurve_swap(last.req.amount_in, last.pre.amount[last.req.swap_source],
                   last.pre.amount[last.req.swap_destination], "AtoB",
                   last.pre.gs.fees, last.pre.gs.swap_curve).dest_amount

C3_SwapMovesInputAndOutput ==
    (last.op = "Swap" /\ last.err = Ok) =>
        /\ amount[last.req.swap_source] =
               last.pre.amount[last.req.swap_source] + last.req.amount_in
        /\ amount[last.req.swap_destination] =
               last.pre.amount[last.req.swap_destination] - SwapOutput
        /\ amount[last.req.source] = last.pre.amount[last.req.source] - last.req.amount_in
        /\ amount[last.req.destination] =
               last.pre.amount[last.req.destination] + SwapOutput

(* C4: after a successful Swap on a constant-product pool the product of   *)
(* the two reserve balances is at least what it was before the swap.        *)
C4_ConstantProduct ==
    (last.op = "Swap" /\ last.err = Ok
       /\ last.pre.gs.swap_curve.curve_type = "ConstantProduct") =>
        amount[last.req.swap_source] * amount[last.req.swap_destination]
          >= last.pre.amount[last.req.swap_source]
               * last.pre.amount[last.req.swap_destination]

(* C5: when the curve yields output d for a Swap that passes validation, the *)
(* Swap fails with ExceededSlippage and moves nothing if minimum_amount_out  *)
(* is above d (d + 1 in particular), is not rejected for slippage if it is   *)
(* d or less, and succeeds with minimum_amount_out = d when the ledger can   *)
(* carry out its transfers; a Swap succeeds only if d >= minimum_amount_out. *)
SwapPreCurveErrors ==
    {"IncorrectProgramId", "InvalidPdaAddress", "InvalidInstruction",
     "NotInitializedState", "UninitializedAccount", "InvalidProgramAddress",
     "IncorrectSwapAccount", "InvalidInput", "IncorrectPoolMint",
     "IncorrectFeeAccount", "IncorrectTokenProgramId", "ExpectedAccount",
     "ZeroTradingTokens"}

SwapFunded ==
    /\ last.req \in { SwapBase(d, last.req.amount_in, last.req.minimum_amount_out) :
                         d \in {"AtoB", "BtoA"} }
    /\ last.pre.amount[last.req.source] >= SwapOutput
    /\ last.pre.amount[last.req.swap_destination] >= SwapOutput

C5_SlippageGuard ==
    (last.op = "Swap" /\ last.err \notin SwapPreCurveErrors) =>
        /\ last.req.minimum_amount_out > SwapOutput =>
               last.err = "ExceededSlippage" /\ Unchanged
        /\ last.req.minimum_amount_out <= SwapOutput => last.err # "ExceededSlippage"
        /\ (last.req.minimum_amount_out = SwapOutput /\ SwapFunded) => last.err = Ok
        /\ last.err = Ok => SwapOutput >= last.req.minimum_amount_out

\* a Swap asking one unit more than the output was rejected, and the same
\* Swap asking exactly the output succeeds from the same state
C5_Witness ==
    /\ last.op = "Swap"
    /\ last.err = "ExceededSlippage"
    /\ last.req.minimum_amount_out = SwapOutput + 1
    /\ process_swap(last.pre, [last.req EXCEPT !.minimum_amount_out = SwapOutput]).err = Ok

(* C6: an Initialize on an initialized pool record fails with AlreadyInUse, *)
(* whatever its accounts and nonce; it mints no pool tokens and leaves the  *)
(* record as it was.                                                         *)
C6_NoReinitialize ==
    (last.op = "Initialize" /\ last.pre.swap.is_initialized) =>
        /\ last.err = "AlreadyInUse"
        /\ swap = last.pre.swap
        /\ supply = last.pre.supply
        /\ amount = last.pre.amount

\* an Initialize naming another reserve account met an initialized pool
C6_Witness ==
    /\ last.op = "Initialize"
    /\ last.pre.swap.is_initialized
    /\ last.req.token_a # last.pre.swap.token_a
    /\ last.err = "AlreadyInUse"

(* C7: once the pool record is initialized, no request of any kind changes *)
(* any of its fields; token balances change only by ledger transfers, so   *)
(* the total held of either traded mint stays what it was.                  *)
MintTotal(a, m) ==
    LET ks == { k \in TokenAccounts : TokenMint(k) = m }
        RECURSIVE Sum(_)
        Sum(S) == IF S = {} THEN 0
                  ELSE LET k == CHOOSE x \in S : TRUE IN a[k] + Sum(S \ {k})
    IN  Sum(ks)

C7_PoolRecordImmutable ==
    /\ last.pre.swap.is_initialized => swap = last.pre.swap
    /\ \A m \in {"mintA", "mintB"} : MintTotal(amount, m) = MintTotal(last.pre.amount, m)

\* a request moved reserves of an initialized pool
C7_Witness ==
    /\ last.pre.swap.is_initialized
    /\ last.err = Ok
    /\ amount["resA"] # last.pre.amount["resA"]
    /\ swap = last.pre.swap

(* C8: an Initialize, Swap, deposit or withdrawal succeeds only if the      *)
(* global-state account it names is the derived singleton and that record   *)
(* was initialized, by an earlier Configure, before the request.            *)
C8_GlobalStateRequired ==
    /\ (last.op \in PoolOps /\ last.err = Ok) =>
           /\ last.req.global_state = GS_PDA
           /\ last.pre.gs.is_initialized
    /\ (swap.is_initialized \/ supply # 0) => gs.is_initialized

\* a pool operation succeeded
C8_Witness ==
    /\ last.op \in PoolOps \ {"Initialize"}
    /\ last.err = Ok
    /\ last.req.global_state = GS_PDA

(* C9: the two mints of an initialized pool record differ; an Initialize    *)
(* whose reserve accounts hold one mint fails, with RepeatedMint when the   *)
(* request passes the checks before it, and mints and writes nothing.       *)
C9_DistinctMints ==
    /\ swap.is_initialized => swap.token_a_mint # swap.token_b_mint
    /\ (last.op = "Initialize"
          /\ TokenMint(last.req.token_a) = TokenMint(last.req.token_b)) =>
           /\ last.err # Ok
           /\ Unchanged
           /\ HandlerState = last.pre
           /\ (/\ ~last.pre.swap.is_initialized
               /\ last.pre.gs.is_initialized
               /\ last.req \in {[InitializeBase EXCEPT !.token_a = "resA2"],
                                 [InitializeBase EXCEPT !.token_b = "resA2"]})
              => last.err = "RepeatedMint"

\* an otherwise valid Initialize with two reserves of one mint was rejected
C9_Witness ==
    /\ last.op = "Initialize"
    /\ last.req.token_b = "resA2"
    /\ last.err = "RepeatedMint"

(* C10: after a successful withdrawal the pool-token supply is at least      *)
(* MIN_LP_SUPPLY, and the amount burned is min(requested, supply - floor).   *)
C10_SupplyFloor ==
    (last.op = "WithdrawAllTokenTypes" /\ last.err = Ok) =>
        /\ supply >= MIN_LP_SUPPLY
        /\ last.pre.supply - supply =
               Min(last.req.pool_token_amount, last.pre.supply - MIN_LP_SUPPLY)

\* a withdrawal asking more than supply - floor burned supply - floor
C10_Witness ==
    /\ last.op = "WithdrawAllTokenTypes"
    /\ last.err = Ok
    /\ last.req.pool_token_amount > last.pre.supply - MIN_LP_SUPPLY
    /\ supply = MIN_LP_SUPPLY

(* C11 as amended: a withdrawal that passes validation on a supply at or    *)
(* above MIN_LP_SUPPLY is never rejected for asking more than the supply    *)
(* can lose: it has exactly the result of the same withdrawal asking        *)
(* min(requested, supply - MIN_LP_SUPPLY), and when that amount is zero it  *)
(* is rejected with nothing changed; on a supply below MIN_LP_SUPPLY every  *)
(* such withdrawal fails with CalculationFailure, whatever it asks.         *)
WithdrawValidationErrors ==
    {"UninitializedAccount", "InvalidPdaAddress", "InvalidInstruction",
     "NotInitializedState", "IncorrectProgramId", "InvalidProgramAddress",
     "IncorrectSwapAccount", "IncorrectPoolMint", "IncorrectTokenProgramId",
     "InvalidInput", "ExpectedAccount", "ExpectedMint"}

WithdrawHeadroom == last.pre.supply - MIN_LP_SUPPLY

WithdrawClamped == Min(last.req.pool_token_amount, WithdrawHeadroom)

C11_ClampedNotRejected ==
    (last.op = "WithdrawAllTokenTypes" /\ last.err \notin WithdrawValidationErrors) =>
        IF last.pre.supply < MIN_LP_SUPPLY
        THEN last.err = "CalculationFailure" /\ Unchanged
        ELSE LET r == process_withdraw_all_token_types(last.pre,
                          [last.req EXCEPT !.pool_token_amount = WithdrawClamped])
             IN  /\ last.err # "CalculationFailure"
                 /\ last.err = r.err
                 /\ State = (IF r.err = Ok THEN Accounts(r.s) ELSE last.pre)
                 /\ last.err = Ok => last.pre.supply - supply = WithdrawClamped
                 /\ WithdrawClamped = 0 =>
                        /\ last.err \in {"ZeroTradingTokens", "ExceededSlippage"}
                        /\ Unchanged

\* a withdrawal asking more than the supply can lose went through with the
\* clamped amount taken from the caller's pool tokens
C11_Witness ==
    /\ last.op = "WithdrawAllTokenTypes"
    /\ last.err = Ok
    /\ last.req.pool_token_amount = BurnLarge
    /\ WithdrawHeadroom > 0
    /\ WithdrawHeadroom < BurnLarge
    /\ amount[last.req.source] = last.pre.amount[last.req.source] - WithdrawHeadroom

(* C11 as stated: a withdrawal that passes validation and asks more than    *)
(* the supply can lose without going below MIN_LP_SUPPLY is rejected on     *)
(* account of the floor only when the clamped amount is zero, at every      *)
(* supply including those below the floor.                                   *)
C11_Original ==
    (/\ last.op = "WithdrawAllTokenTypes"
     /\ last.err \notin WithdrawValidationErrors
     /\ last.req.pool_token_amount > 0
     /\ last.req.pool_token_amount > WithdrawHeadroom
     /\ last.err = "CalculationFailure") => WithdrawClamped = 0

(* C12: a successful withdrawal that burns p pool tokens from supply S with *)
(* reserves (A, B) moves exactly min(A, floor(p*A/S)) of token A and        *)
(* min(B, floor(p*B/S)) of token B from the reserves to the caller, which   *)
(* is never more than the share p/S of either reserve.                      *)
WithdrawBurned == last.pre.supply - supply

WithdrawShare(k) ==
    Min(last.pre.amount[k], (WithdrawBurned * last.pre.amount[k]) \div last.pre.supply)

C12_WithdrawPaysFloorShare ==
    (last.op = "WithdrawAllTokenTypes" /\ last.err = Ok) =>
        /\ amount[last.req.token_a] =
               last.pre.amount[last.req.token_a] - WithdrawShare(last.req.token_a)
        /\ amount[last.req.dest_token_a] =
               last.pre.amount[last.req.dest_token_a] + WithdrawShare(last.req.token_a)
        /\ amount[last.req.token_b] =
               last.pre.amount[last.req.token_b] - WithdrawShare(last.req.token_b)
        /\ amount[last.req.dest_token_b] =
               last.pre.amount[last.req.dest_token_b] + WithdrawShare(last.req.token_b)
        /\ \A k \in {last.req.token_a, last.req.token_b} :
               (last.pre.amount[k] - amount[k]) * last.pre.supply
                   <= WithdrawBurned * last.pre.amount[k]

\* a withdrawal paid a share that the division rounded down, and a share of
\* exactly one unit
C12_Witness ==
    /\ last.op = "WithdrawAllTokenTypes"
    /\ last.err = Ok
    /\ WithdrawBurned > 0
    /\ (WithdrawBurned * last.pre.amount[last.req.token_b]) % last.pre.supply # 0
    /\ \E k \in {last.req.token_a, last.req.token_b} : last.pre.amount[k] - amount[k] = 1

(* C13: a successful deposit of (max_a, max_b) into a pool with supply S    *)
(* and reserves (A, B) moves exactly max_a and max_b from the caller into   *)
(* the two reserves and mints floor((max_a + max_b) * S / (A + B)) pool     *)
(* tokens to the destination, with A and B the reserves before the deposit. *)
DepositMinted ==
    ((last.req.maximum_token_a_amount + last.req.maximum_token_b_amount)
        * last.pre.supply)
    \div (last.pre.amount[last.req.token_a] + last.pre.amount[last.req.token_b])

ConfigurePassesAccountChecks ==
    /\ last.req.global_state = GS_PDA
    /\ last.req.is_signer
    /\ last.req.system = SYSTEM_PROGRAM_ID
    /\ last.req.rent = RENT_SYSVAR_ID

PolicyAcceptable(fees, swap_curve) ==
    /\ swap_curve.curve_type \in {"ConstantPrice", "ConstantProduct"}
    /\ fees.trade_fee_numerator >= MINIMUM_FEES_NUMERATOR
    /\ fees.trade_fee_denominator = MINIMUM_FEES_DENOMINATOR

C14_OwnerHandover ==
    /\ (last.op = "Configure" /\ last.pre.gs.is_initialized) =>
          /\ last.req.current_owner # last.pre.gs.owner =>
                /\ last.err # Ok
                /\ Unchanged
                /\ ConfigurePassesAccountChecks => last.err = "InvalidProgramOwner"
          /\ (/\ last.req.current_owner = last.pre.gs.owner
              /\ ConfigurePassesAccountChecks
              /\ PolicyAcceptable(last.req.fees, last.req.swap_curve)) =>
                /\ last.err = Ok
                /\ gs.fees = last.req.fees
                /\ gs.swap_curve = last.req.swap_curve
                /\ gs.owner = last.req.owner
    /\ gs.is_initialized =>
          \A c \in Callers, pl \in Policies :
              (process_set_global_state(State, ConfigureBase(c, TRUE, c, pl)).err = Ok)
                  <=> (c = gs.owner)

\* after a handover to another owner, the former owner's Configure was
\* rejected where the new owner's is accepted
C14_Witness ==
    /\ last.op = "Configure"
    /\ last.err = "InvalidProgramOwner"
    /\ last.pre.gs.is_initialized
    /\ last.pre.gs.owner # INITIAL_PROGRAM_OWNER
    /\ last.req.current_owner = INITIAL_PROGRAM_OWNER
    /\ process_set_global_state(State,
           [last.req EXCEPT !.current_owner = gs.owner]).err = Ok

(* C15: after a successful Configure the GlobalState record is initialized  *)
(* and its owner, fee_owner, initial_supply, lp_decimals, fees and curve    *)
(* are those the request carries.                                            *)
C15_ConfigureOverwritesRecord ==
    (last.op = "Configure" /\ last.err = Ok) =>
        /\ gs.is_initialized
        /\ gs.owner = last.req.owner
        /\ gs.fee_owner = last.req.fee_owner
        /\ gs.initial_supply = last.req.initial_supply
        /\ gs.lp_decimals = last.req.lp_decimals
        /\ gs.fees = last.req.fees
        /\ gs.swap_curve = last.req.swap_curve

(* C16: a Configure succeeds only if its curve type is ConstantPrice or     *)
(* ConstantProduct and its fees have a numerator at least the floor's and   *)
(* the floor's denominator, 10000; otherwise it fails and changes nothing,  *)
(* with UnsupportedCurveType or InvalidFee when an authorized caller passes *)
(* the account checks.  The fees and curve of an initialized GlobalState    *)
(* are acceptable.                                                           *)
C16_PolicyFloor ==
    /\ MINIMUM_FEES_DENOMINATOR = 10000
    /\ last.op = "Configure" =>
          /\ last.err = Ok => PolicyAcceptable(last.req.fees, last.req.swap_curve)
          /\ ~PolicyAcceptable(last.req.fees, last.req.swap_curve) =>
                /\ last.err # Ok
                /\ Unchanged
                /\ (ConfigurePassesAccountChecks /\ C2_Authorized) =>
                      last.err = IF last.req.swap_curve.curve_type
                                      \notin {"ConstantPrice", "ConstantProduct"}
                                 THEN "UnsupportedCurveType" ELSE "InvalidFee"
    /\ gs.is_initialized => PolicyAcceptable(gs.fees, gs.swap_curve)

\* the owner of an initialized record asked for fees off the floor's
\* denominator and was refused
C16_Witness ==
    /\ last.op = "Configure"
    /\ last.pre.gs.is_initialized
    /\ last.req.current_owner = last.pre.gs.owner
    /\ last.req.swap_curve.curve_type = "ConstantProduct"
    /\ last.err = "InvalidFee"
    /\ gs = last.pre.gs

(* What a Swap, deposit or withdrawal names, against the pool record it     *)
(* names and the global state.                                               *)
GuardedOps == {"Swap", "DepositAllTokenTypes", "WithdrawAllTokenTypes"}

PoolRecord == SwapData(last.pre, last.req.swap_info)

PoolRecordDecodes == PoolRecord.version = SWAP_V1

BoundOwner == AccountOwner(last.req.swap_info) = PROGRAM_ID

BoundAuthority ==
    last.req.authority = authority_id(PROGRAM_ID, last.req.swap_info, PoolRecord.nonce)

BoundReserves ==
    IF last.op = "Swap"
    THEN {last.req.swap_source, last.req.swap_destination}
             \subseteq {PoolRecord.token_a, PoolRecord.token_b}
    ELSE last.req.token_a = PoolRecord.token_a /\ last.req.token_b = PoolRecord.token_b

BoundMint == last.req.pool_mint = PoolRecord.pool_mint

BoundTokenProgram == last.req.token_program = PoolRecord.token_program_id

\* the error of the first binding the request breaks, Ok when it breaks none
BindingError ==
    IF ~BoundOwner THEN "IncorrectProgramId"
    ELSE IF ~BoundAuthority THEN "InvalidProgramAddress"
    ELSE IF ~BoundReserves THEN "IncorrectSwapAccount"
    ELSE IF ~BoundMint THEN "IncorrectPoolMint"
    ELSE IF ~BoundTokenProgram THEN "IncorrectTokenProgramId"
    ELSE Ok

GlobalConfigError ==
    IF last.req.global_state # GS_PDA THEN "InvalidPdaAddress"
    ELSE IF last.pre.gs.data_empty THEN "InvalidInstruction"
    ELSE IF ~last.pre.gs.is_initialized THEN "NotInitializedState"
    ELSE Ok

\* each transfer's two ends differ (and a Swap's two reserves)
TransferEndsDistinct ==
    CASE last.op = "Swap" ->
           /\ last.req.swap_source # last.req.swap_destination
           /\ last.req.swap_source # last.req.source
           /\ last.req.swap_destination # last.req.destination
      [] last.op = "DepositAllTokenTypes" ->
           /\ last.req.token_a # last.req.source_a
           /\ last.req.token_b # last.req.source_b
      [] OTHER ->
           /\ last.req.token_a # last.req.dest_token_a
           /\ last.req.token_b # last.req.dest_token_b

\* the caller-side accounts and the two reserves the request names
NamedAccounts ==
    CASE last.op = "Swap" ->
           <<last.req.source, last.req.destination,
             last.req.swap_source, last.req.swap_destination>>
      [] last.op = "DepositAllTokenTypes" ->
           <<last.req.source_a, last.req.source_b, last.req.dest,
             last.req.token_a, last.req.token_b>>
      [] OTHER ->
           <<last.req.source, last.req.dest_token_a, last.req.dest_token_b,
             last.req.token_a, last.req.token_b>>

AllDistinct ==
    Cardinality({ NamedAccounts[i] : i \in DOMAIN NamedAccounts }) = Len(NamedAccounts)

DepositsAllowed ==
    last.op = "DepositAllTokenTypes" =>
        last.pre.gs.swap_curve.curve_type # "ConstantPrice"

(* C17: a Swap, deposit or withdrawal succeeds only if the pool account is  *)
(* owned by the program, the authority is the address derived from the pool *)
(* address and the stored nonce, the reserves and pool mint it names are    *)
(* those of the pool record and the token program is the stored one; a      *)
(* request breaking one of these fails with no ledger call made, and with   *)
(* the error of the first binding it breaks when nothing else is wrong.     *)
C17_BoundAccounts ==
    last.op \in GuardedOps =>
        /\ last.err = Ok =>
              /\ BindingError = Ok
              /\ last.op = "Swap" =>
                    {last.req.swap_source, last.req.swap_destination}
                        = {PoolRecord.token_a, PoolRecord.token_b}
        /\ BindingError # Ok =>
              /\ last.err # Ok
              /\ HandlerState = last.pre
              /\ Unchanged
        /\ (/\ BindingError # Ok
            /\ GlobalConfigError = Ok
            /\ PoolRecordDecodes
            /\ DepositsAllowed
            /\ TransferEndsDistinct) => last.err = BindingError

\* a request naming another token program for an initialized pool
C17_Witness ==
    /\ last.op \in GuardedOps
    /\ last.pre.swap.is_initialized
    /\ last.req.token_program # TOKEN_PROGRAM
    /\ last.err = "IncorrectTokenProgramId"
    /\ HandlerState = last.pre

SwapCheckOrder ==
    IF ~BoundOwner THEN "IncorrectProgramId"
    ELSE IF GlobalConfigError # Ok THEN GlobalConfigError
    ELSE IF ~PoolRecordDecodes THEN "UninitializedAccount"
    ELSE IF ~BoundAuthority THEN "InvalidProgramAddress"
    ELSE IF ~BoundReserves THEN "IncorrectSwapAccount"
    ELSE IF ~TransferEndsDistinct THEN "InvalidInput"
    ELSE IF ~BoundMint THEN "IncorrectPoolMint"
    ELSE IF last.req.pool_fee_account # last.pre.gs.fee_owner THEN "IncorrectFeeAccount"
    ELSE IF ~BoundTokenProgram THEN "IncorrectTokenProgramId"
    ELSE Ok

DepositWithdrawCheckOrder ==
    IF ~PoolRecordDecodes THEN "UninitializedAccount"
    ELSE IF GlobalConfigError # Ok THEN GlobalConfigError
    ELSE IF ~DepositsAllowed THEN "UnsupportedCurveOperation"
    ELSE IF ~BoundOwner THEN "IncorrectProgramId"
    ELSE IF ~BoundAuthority THEN "InvalidProgramAddress"
    ELSE IF ~BoundReserves THEN "IncorrectSwapAccount"
    ELSE IF ~BoundMint THEN "IncorrectPoolMint"
    ELSE IF ~BoundTokenProgram THEN "IncorrectTokenProgramId"
    ELSE IF ~TransferEndsDistinct THEN "InvalidInput"
    ELSE Ok

CheckOrder == IF last.op = "Swap" THEN SwapCheckOrder ELSE DepositWithdrawCheckOrder

C19_CheckOrder ==
    (last.op \in GuardedOps /\ CheckOrder # Ok) =>
        /\ last.err = CheckOrder
        /\ HandlerState = last.pre

\* a request naming both another global state and another authority got the
\* error of the global-state check
C19_Witness ==
    /\ last.op \in GuardedOps
    /\ PoolRecordDecodes
    /\ BoundOwner
    /\ ~BoundAuthority
    /\ last.req.global_state # GS_PDA
    /\ last.err = "InvalidPdaAddress"

(* C19 as stated: the checks come in the order pool account owner, derived  *)
(* authority, reserve and mint bindings, token program, transfer ends,      *)
(* global state; the error returned is that of the first one failed.        *)
StatedCheckOrder ==
    IF ~BoundOwner THEN {"IncorrectProgramId"}
    ELSE IF ~BoundAuthority THEN {"InvalidProgramAddress"}
    ELSE IF ~BoundReserves \/ ~BoundMint THEN {"IncorrectSwapAccount", "IncorrectPoolMint"}
    ELSE IF ~BoundTokenProgram THEN {"IncorrectTokenProgramId"}
    ELSE IF ~TransferEndsDistinct THEN {"InvalidInput"}
    ELSE IF GlobalConfigError # Ok THEN {GlobalConfigError}
    ELSE {}

C19_Original ==
    (/\ last.op \in GuardedOps
     /\ PoolRecordDecodes
     /\ DepositsAllowed
     /\ StatedCheckOrder # {}) => last.err \in StatedCheckOrder

(* C20: after a successful Initialize the pool record is initialized and    *)
(* holds the request's nonce, token program, reserve accounts and pool mint *)
(* and the mints of the two reserves; the pool-token supply, zero before,   *)
(* is the initial_supply GlobalState held at the request, all of it in the  *)
(* destination account.                                                      *)
C20_InitializeWritesPool ==
    (last.op = "Initialize" /\ last.err = Ok) =>
        /\ swap.is_initialized
        /\ swap.version = SWAP_V1
        /\ swap.nonce = last.req.nonce
        /\ swap.token_program_id = last.req.token_program
        /\ swap.token_a = last.req.token_a
        /\ swap.token_b = last.req.token_b
        /\ swap.pool_mint = last.req.pool_mint
        /\ swap.token_a_mint = TokenMint(last.req.token_a)
        /\ swap.token_b_mint = TokenMint(last.req.token_b)
        /\ last.pre.supply = 0
        /\ supply = last.pre.gs.initial_supply
        /\ amount[last.req.destination] =
               last.pre.amount[last.req.destination] + last.pre.gs.initial_supply

\* an Initialize minted a configured supply above zero
C20_Witness ==
    /\ last.op = "Initialize"
    /\ last.err = Ok
    /\ ~last.pre.swap.is_initialized
    /\ last.pre.gs.initial_supply = SupplyHigh
    /\ supply = SupplyHigh
    /\ amount[last.req.destination] = SupplyHigh

(* C21: an Initialize succeeds only if both reserve accounts are owned by   *)
(* the derived authority, hold a balance above zero, have no delegate and   *)
(* no close authority and are not frozen, the pool mint has the derived     *)
(* authority as mint authority, supply zero, no freeze authority and the    *)
(* required decimals, and the fee and destination accounts are not owned by *)
(* the derived authority; otherwise it fails having minted nothing and      *)
(* written no pool record.                                                   *)
InitializeDerived == authority_id(PROGRAM_ID, last.req.swap_info, last.req.nonce)

ReserveFresh(k) ==
    /\ TokenOwner(k) = InitializeDerived
    /\ Amount(last.pre, k) > 0
    /\ TokenDelegate(k) = None
    /\ TokenCloseAuthority(k) = None
    /\ ~TokenIsFrozen(k)

InitializeConditions ==
    /\ ReserveFresh(last.req.token_a)
    /\ ReserveFresh(last.req.token_b)
    /\ MintAuthority(last.req.pool_mint) = InitializeDerived
    /\ MintSupply(last.pre, last.req.pool_mint) = 0
    /\ MintFreezeAuthority(last.req.pool_mint) = None
    /\ MintDecimals(last.req.pool_mint) = POOL_MINT_DECIMALS
    /\ TokenOwner(last.req.fee_account) # InitializeDerived
    /\ TokenOwner(last.req.destination) # InitializeDerived

C21_InitializeConditions ==
    last.op = "Initialize" =>
        /\ last.err = Ok => InitializeConditions
        /\ ~InitializeConditions =>
              /\ last.err # Ok
              /\ HandlerState = last.pre
              /\ supply = last.pre.supply
              /\ swap = last.pre.swap

\* an Initialize naming a reserve account with a delegate, all else in order
C21_Witness ==
    /\ last.op = "Initialize"
    /\ last.req = [InitializeBase EXCEPT !.token_a = "resA_delegated"]
    /\ last.pre.gs.is_initialized
    /\ last.err = "InvalidDelegate"
    /\ ~last.pre.swap.is_initialized

(* C22: a deposit under a curve that does not allow deposits is rejected,   *)
(* with UnsupportedCurveOperation once the pool record and the global state *)
(* have been read, and no token is transferred or minted; no deposit        *)
(* succeeds under such a curve.                                              *)
CurveInForce == GlobalStateData(last.pre, last.req.global_state).swap_curve

C22_DepositsRefused ==
    last.op = "DepositAllTokenTypes" =>
        /\ last.err = Ok => allows_deposits(CurveInForce)
        /\ ~allows_deposits(CurveInForce) =>
              /\ last.err # Ok
              /\ HandlerState = last.pre
              /\ Unchanged
              /\ (PoolRecordDecodes /\ GlobalConfigError = Ok) =>
                     last.err = "UnsupportedCurveOperation"

\* a well-formed deposit into an initialized pool under the constant-price curve
C22_Witness ==
    /\ last.op = "DepositAllTokenTypes"
    /\ last.pre.swap.is_initialized
    /\ last.pre.gs.swap_curve.curve_type = "ConstantPrice"
    /\ last.req = DepositBase(1, 1)
    /\ last.err = "UnsupportedCurveOperation"

(* C23: a withdrawal whose computed amount of token A or of token B, for    *)
(* the clamped burn amount, is below the stated minimum of that side is      *)
(* rejected, burning and transferring nothing; the error is ExceededSlippage *)
(* when side A is below its minimum, and when side B is below its minimum    *)
(* unless side A computed to zero out of a reserve that is not empty, which  *)
(* is rejected first with ZeroTradingTokens.  A successful withdrawal pays   *)
(* at least the stated minimum on each side.                                  *)
WithdrawComputes ==
    /\ last.op = "WithdrawAllTokenTypes"
    /\ last.err \notin WithdrawValidationErrors \cup {"CalculationFailure"}

WithdrawComputed(k) ==
    Min(last.pre.amount[k], (WithdrawClamped * last.pre.amount[k]) \div last.pre.supply)

BelowMinimumA == WithdrawComputed(last.req.token_a) < last.req.minimum_token_a_amount

BelowMinimumB == WithdrawComputed(last.req.token_b) < last.req.minimum_token_b_amount

ZeroOfReserveA ==
    WithdrawComputed(last.req.token_a) = 0 /\ last.pre.amount[last.req.token_a] # 0

C23_WithdrawSlippage ==
    WithdrawComputes =>
        /\ BelowMinimumA => last.err = "ExceededSlippage"
        /\ (BelowMinimumB /\ ~ZeroOfReserveA) => last.err = "ExceededSlippage"
        /\ (BelowMinimumA \/ BelowMinimumB) =>
              /\ last.err # Ok
              /\ HandlerState = last.pre
              /\ Unchanged
        /\ last.err = "ExceededSlippage" => (BelowMinimumA \/ BelowMinimumB)
        /\ last.err = Ok =>
              /\ amount[last.req.dest_token_a] - last.pre.amount[last.req.dest_token_a]
                     >= last.req.minimum_token_a_amount
              /\ amount[last.req.dest_token_b] - last.pre.amount[last.req.dest_token_b]
                     >= last.req.minimum_token_b_amount

\* a burn whose share of each reserve is one token, against a minimum of
\* MaxAmount on side B alone
C23_Witness ==
    /\ WithdrawComputes
    /\ last.req.pool_token_amount > 0
    /\ ~BelowMinimumA
    /\ BelowMinimumB
    /\ WithdrawComputed(last.req.token_b) > 0
    /\ last.err = "ExceededSlippage"

(* C23 as stated: the rejection of a withdrawal below a minimum on either   *)
(* side is always ExceededSlippage.                                          *)
C23_Original ==
    (WithdrawComputes /\ (BelowMinimumA \/ BelowMinimumB)) =>
        last.err = "ExceededSlippage"

(* C27: a Configure on an empty global-state account allocates the record   *)
(* and bootstraps it in memory with the initial program owner; it succeeds   *)
(* exactly when its accounts are in order, its caller is that initial owner  *)
(* and its curve and fees pass validation, and the record stays unallocated  *)
(* otherwise.  The caller is compared with the stored owner only when the    *)
(* record was initialized before.                                            *)
FirstConfigure == last.op = "Configure" /\ last.pre.gs.data_empty

C27_Bootstrap ==
    /\ FirstConfigure =>
          /\ last.err = Ok <=>
                /\ ConfigurePassesAccountChecks
                /\ last.req.current_owner = INITIAL_PROGRAM_OWNER
                /\ PolicyAcceptable(last.req.fees, last.req.swap_curve)
          /\ ConfigurePassesAccountChecks => ~HandlerState.gs.data_empty
          /\ last.err = Ok =>
                /\ ~gs.data_empty
                /\ gs.is_initialized
                /\ gs.owner = last.req.owner
          /\ last.err # Ok => gs.data_empty
          /\ (ConfigurePassesAccountChecks
                /\ last.req.current_owner # INITIAL_PROGRAM_OWNER)
                => last.err = "InvalidProgramOwner"
    /\ (last.op = "Configure" /\ ~last.pre.gs.data_empty /\ last.err = Ok) =>
          last.req.current_owner = last.pre.gs.owner

\* the first Configure, by the initial owner, naming another owner
C27_Witness ==
    /\ FirstConfigure
    /\ last.err = Ok
    /\ last.req.current_owner = INITIAL_PROGRAM_OWNER
    /\ gs.owner = "alice"

(* C27 as stated: the first Configure succeeds for any signing caller whose *)
(* curve and fees pass validation.                                           *)
C27_Original ==
    (FirstConfigure /\ ConfigurePassesAccountChecks
        /\ PolicyAcceptable(last.req.fees, last.req.swap_curve)) =>
        last.err = Ok

(* C28: on a pool account whose record has a version byte that is neither   *)
(* the current version nor the zero of unused storage, every request kind    *)
(* fails and the record stays as it was; Initialize does not overwrite it.   *)
C28_UnknownVersionFailsClosed ==
    (last.op \in PoolOps /\ last.req.swap_info = POOL
        /\ last.pre.swap.version \notin {0, SWAP_V1}) =>
        /\ last.err # Ok
        /\ swap = last.pre.swap

(* C29: two deposits that differ only in pool_token_amount, issued in the   *)
(* same state, return the same outcome and leave the same state.             *)
PoolTokenAmounts == {0, 1, BurnSmall, BurnLarge}

NamesStoredReserves ==
    /\ {last.req.swap_source, last.req.swap_destination}
           = {PoolRecord.token_a, PoolRecord.token_b}
    /\ last.req.swap_source # last.req.swap_destination

Grew(k) == amount[k] > last.pre.amount[k]

Shrank(k) == amount[k] < last.pre.amount[k]

C30_SwapDirection ==
    last.op = "Swap" =>
        /\ last.err = Ok =>
              /\ NamesStoredReserves
              /\ Grew(last.req.swap_source)
              /\ Shrank(last.req.swap_destination)
              /\ last.req.swap_source = PoolRecord.token_a =>
                     Grew(PoolRecord.token_a) /\ Shrank(PoolRecord.token_b)
              /\ last.req.swap_source = PoolRecord.token_b =>
                     Grew(PoolRecord.token_b) /\ Shrank(PoolRecord.token_a)
              /\ last.pre.amount[last.req.swap_destination]
                     - amount[last.req.swap_destination] = SwapOutput
        /\ ~NamesStoredReserves => last.err # Ok /\ HandlerState = last.pre

\* a swap from reserve B's side: the stored token_b is the named source
C30_Witness ==
    /\ last.op = "Swap"
    /\ last.err = Ok
    /\ last.req.swap_source = last.pre.swap.token_b
    /\ Grew(last.pre.swap.token_b)
    /\ Shrank(last.pre.swap.token_a)

----------------------------------------------------------------------------
(* Properties of the codecs, under CodecSpec *)

\* the eight bytes after the first off bytes of b are v, least significant first
LittleEndianAt(b, off, v) ==
    \A i \in 1..U64_LEN : b[off + i] = (v \div (ByteValues ^ (i - 1))) % ByteValues

InstructionLayout(ins, b) ==
    CASE ins.kind = "Initialize" ->
             /\ b[1] = 0
             /\ Len(b) = 1 + SwapCurve_LEN
             /\ b[2] = ins.swap_curve.curve_type
      [] ins.kind = "Swap" ->
             /\ b[1] = 1
             /\ Len(b) = 1 + 2 * U64_LEN
             /\ LittleEndianAt(b, 1, ins.amount_in)
             /\ LittleEndianAt(b, 1 + U64_LEN, ins.minimum_amount_out)
      [] ins.kind = "DepositAllTokenTypes" ->
             /\ b[1] = 2
             /\ Len(b) = 1 + 3 * U64_LEN
             /\ LittleEndianAt(b, 1, ins.pool_token_amount)
             /\ LittleEndianAt(b, 1 + U64_LEN, ins.maximum_token_a_amount)
             /\ LittleEndianAt(b, 1 + 2 * U64_LEN, ins.maximum_token_b_amount)
      [] ins.kind = "WithdrawAllTokenTypes" ->
             /\ b[1] = 3
             /\ Len(b) = 1 + 3 * U64_LEN
             /\ LittleEndianAt(b, 1, ins.pool_token_amount)
             /\ LittleEndianAt(b, 1 + U64_LEN, ins.minimum_token_a_amount)
             /\ LittleEndianAt(b, 1 + 2 * U64_LEN, ins.minimum_token_b_amount)
      [] ins.kind = "SetGlobalStateInstruction" ->
             /\ b[1] = 4
             /\ Len(b) = 1 + 2 * PUBKEY_LEN + U64_LEN + 1 + Fees_LEN
             /\ SubSeq(b, 2, 1 + PUBKEY_LEN) = ins.owner
             /\ SubSeq(b, 2 + PUBKEY_LEN, 1 + 2 * PUBKEY_LEN) = ins.fee_owner
             /\ LittleEndianAt(b, 1 + 2 * PUBKEY_LEN, ins.initial_supply)
             /\ b[2 + 2 * PUBKEY_LEN + U64_LEN] = ins.lp_decimals
             /\ LittleEndianAt(b, 2 + 2 * PUBKEY_LEN + U64_LEN,
                               ins.fees.trade_fee_numerator)

(* C24: unpacking the buffer an instruction of any of the five kinds was    *)
(* packed into gives back that instruction, for field values that include   *)
(* zero and the largest of each width; the buffer is the kind's tag, 0 to 4, *)
(* followed by the fields in little-endian order at their fixed widths with  *)
(* nothing between them.                                                     *)
C24_RequestRoundTrip ==
    (last.op \in {"pack", "unpack"} /\ last.kind = "SwapInstruction"
        /\ last.damage = "none") =>
        /\ InstructionLayout(last.value, last.bytes)
        /\ last.op = "unpack" =>
              /\ last.result.err = Ok
              /\ last.result.v = last.value

\* a Swap of the largest amount_in and another minimum_amount_out came back
C24_Witness ==
    /\ last.op = "unpack"
    /\ last.kind = "SwapInstruction"
    /\ last.damage = "none"
    /\ last.value.kind = "Swap"
    /\ last.value.amount_in = WireU64Max
    /\ last.value.minimum_amount_out = ByteValues
    /\ last.result.v = last.value

(* C25: unpacking returns InvalidInstruction, and nothing else, for the     *)
(* empty buffer, for a first byte that is no tag, and for a buffer of tag 1  *)
(* to 4 whose payload is shorter than the fields of that tag (a Configure    *)
(* with fewer than 64 bytes of owner and fee_owner among them).              *)
PayloadLen(tag) ==
    CASE tag = 1 -> 2 * U64_LEN
      [] tag \in {2, 3} -> 3 * U64_LEN
      [] tag = 4 -> 2 * PUBKEY_LEN + U64_LEN + 1 + Fees_LEN

Malformed(b) ==
    \/ b = <<>>
    \/ b # <<>> /\ b[1] \notin 0..4
    \/ b # <<>> /\ b[1] \in 1..4 /\ Len(b) - 1 < PayloadLen(b[1])

C25_MalformedIsInvalidInstruction ==
    (last.op = "unpack" /\ last.kind = "SwapInstruction" /\ Malformed(last.bytes)) =>
        last.result.err = "InvalidInstruction"

\* the owner, fee_owner, initial_supply, lp_decimals and trade fee of g are
\* at their places in b
GlobalStateLayout(g, b) ==
    /\ Len(b) = GlobalState_LEN
    /\ b[1] = bool_byte(g.is_initialized)
    /\ SubSeq(b, 2, 33) = g.owner
    /\ SubSeq(b, 34, 65) = g.fee_owner
    /\ LittleEndianAt(b, 65, g.initial_supply)
    /\ b[74] = g.lp_decimals
    /\ LittleEndianAt(b, 74, g.fees.trade_fee_numerator)

SwapV1Layout(v, b) ==
    /\ Len(b) = SwapV1_LEN
    /\ b[1] = bool_byte(v.is_initialized)
    /\ b[2] = v.nonce
    /\ SubSeq(b, 3, 34) = v.token_program_id
    /\ SubSeq(b, 35, 66) = v.token_a
    /\ SubSeq(b, 67, 98) = v.token_b
    /\ SubSeq(b, 99, 130) = v.pool_mint
    /\ SubSeq(b, 131, 162) = v.token_a_mint
    /\ SubSeq(b, 163, 194) = v.token_b_mint
    /\ b[195] = v.swap_curve.curve_type

(* C26: unpacking the buffer a GlobalState or a SwapV1 record was packed    *)
(* into gives back that record, for all-zero and all-largest fields and for  *)
(* both values of is_initialized; the buffer is 114 bytes for GlobalState    *)
(* and 227 bytes for SwapV1, the fields in their stated order.               *)
C26_RecordRoundTrip ==
    (last.op \in {"pack", "unpack"} /\ last.kind \in {"GlobalState", "SwapV1"}
        /\ last.damage = "none") =>
        /\ last.kind = "GlobalState" => GlobalStateLayout(last.value, last.bytes)
        /\ last.kind = "SwapV1" => SwapV1Layout(last.value, last.bytes)
        /\ last.op = "unpack" =>
              /\ last.result.err = Ok
              /\ last.result.v = last.value

\* an initialized GlobalState of the largest supply, owner and fee_owner
\* unequal, came back
C26_Witness ==
    /\ last.op = "unpack"
    /\ last.kind = "GlobalState"
    /\ last.damage = "none"
    /\ last.value.is_initialized
    /\ last.value.initial_supply = WireU64Max
    /\ last.value.owner # last.value.fee_owner
    /\ last.result.v = last.value

(* C31: a successful withdrawal has the ledger burn the clamped pool-token   *)
(* amount first, then transfer side A, then side B, with a transfer for a    *)
(* side exactly when its computed amount is not zero.  A side that computes  *)
(* to zero out of a reserve that is not empty makes the withdrawal fail with *)
(* no instruction carried out; a successful withdrawal skips the transfer of *)
(* a side only when that reserve is empty.                                    *)
WithdrawCalls ==
    LET a == WithdrawComputed(last.req.token_a)
        b == WithdrawComputed(last.req.token_b)
    IN  << BurnCall(last.req.source, last.req.pool_mint, WithdrawClamped) >>
        \o (IF a > 0
            THEN << TransferCall(last.req.token_a, last.req.dest_token_a, a) >>
            ELSE << >>)
        \o (IF b > 0
            THEN << TransferCall(last.req.token_b, last.req.dest_token_b, b) >>
            ELSE << >>)

ZeroOfReserveB ==
    WithdrawComputed(last.req.token_b) = 0 /\ last.pre.amount[last.req.token_b] # 0

C31_WithdrawCallOrder ==
    last.op = "WithdrawAllTokenTypes" =>
        /\ last.err = Ok =>
              /\ HandlerState.calls = WithdrawCalls
              /\ ~ZeroOfReserveA
              /\ ~ZeroOfReserveB
        /\ (WithdrawComputes /\ (ZeroOfReserveA \/ ZeroOfReserveB)) =>
              /\ last.err \in {"ZeroTradingTokens", "ExceededSlippage"}
              /\ HandlerState.calls = << >>
              /\ Unchanged

\* a withdrawal from a pool whose reserve A a swap has emptied: the burn and
\* the transfer of side B, no transfer of side A
C31_Witness ==
    /\ last.op = "WithdrawAllTokenTypes"
    /\ last.err = Ok
    /\ last.pre.amount[last.req.token_a] = 0
    /\ WithdrawComputed(last.req.token_b) > 0
    /\ Len(HandlerState.calls) = 2
    /\ HandlerState.calls[1].ix = "Burn"
    /\ HandlerState.calls[2] =
           TransferCall(last.req.token_b, last.req.dest_token_b,
                        WithdrawComputed(last.req.token_b))

(* C31 as stated: a computed amount of zero on a side is no ground for       *)
(* rejecting a withdrawal that meets its minimums.                           *)
C31_Original ==
    (/\ WithdrawComputes
     /\ ~BelowMinimumA
     /\ ~BelowMinimumB
     /\ \/ WithdrawComputed(last.req.token_a) = 0
        \/ WithdrawComputed(last.req.token_b) = 0) =>
        last.err # "ZeroTradingTokens"

(* C32: a Swap, deposit or withdrawal succeeds only on the pool account and  *)
(* only when its record has the current version and is initialized; the      *)
(* record changes only by a successful Initialize, so every such success     *)
(* comes after one.                                                           *)
C32_InitializeFirst ==
    /\ (last.op \in GuardedOps /\ last.err = Ok) =>
          /\ last.req.swap_info = POOL
          /\ last.pre.swap.version = SWAP_V1
          /\ last.pre.swap.is_initialized
    /\ swap # last.pre.swap => (last.op = "Initialize" /\ last.err = Ok)

\* a swap, deposit or withdrawal that succeeds after the Initialize of its pool
C32_Witness ==
    /\ last.op \in GuardedOps
    /\ last.err = Ok
    /\ last.pre.swap.is_initialized
    /\ State # last.pre

(* C33: a successful Swap has the ledger carry out two transfers of one and  *)
(* the same amount, from the caller into the source-side reserve and from    *)
(* the destination-side reserve to the caller, and leaves the sum of the two *)
(* reserves of the pool as it was.                                            *)
ReserveSum(a) == a[last.pre.swap.token_a] + a[last.pre.swap.token_b]

Redeem ==
    process_withdraw_all_token_types(State,
        WithdrawBase(supply - last.pre.supply, 0, 0))

DepositTook(k) == last.pre.amount[k] - amount[k]

RedeemReturns(k) == Redeem.s.amount[k] - amount[k]

C34_NoRoundTripProfit ==
    (last.op = "DepositAllTokenTypes" /\ last.err = Ok /\ Redeem.err = Ok) =>
        /\ RedeemReturns("userA") + RedeemReturns("userB")
               <= DepositTook("userA") + DepositTook("userB")
        /\ RedeemReturns("userA") <= DepositTook("userA")
        /\ RedeemReturns("userB") <= DepositTook("userB")

(* C35: a successful deposit that takes a total input above zero mints at    *)
(* least one pool token; a deposit whose computed pool-token amount is zero  *)
(* does not succeed.                                                          *)
C35_DepositMintsSomething ==
    (last.op = "DepositAllTokenTypes" /\ last.err = Ok) =>
        /\ last.req.maximum_token_a_amount + last.req.maximum_token_b_amount > 0 =>
              supply > last.pre.supply
        /\ DepositMinted > 0

(* C36: both reserves of an initialized pool hold more than zero: they do at *)
(* its Initialize, and no Swap, deposit or withdrawal brings one to zero.     *)
C36_ReservesStayPositive ==
    swap.is_initialized =>
        /\ amount[swap.token_a] > 0
        /\ amount[swap.token_b] > 0

(* C37: Configure changes nothing but the global state record; Swap, deposit *)
(* and withdrawal leave the global state and the pool record as they were;   *)
(* Swap leaves the supply of pool tokens as it was; the supply changes only  *)
(* by a successful Initialize (plus the initial supply), deposit (plus the   *)
(* minted amount) and withdrawal (minus the burned amount).                   *)
SupplyChange ==
    IF last.err # Ok THEN 0
    ELSE CASE last.op = "Initialize" -> last.pre.gs.initial_supply
           [] last.op = "DepositAllTokenTypes" -> DepositMinted
           [] last.op = "WithdrawAllTokenTypes" -> 0 - WithdrawClamped
           [] OTHER -> 0

C37_Frame ==
    /\ last.op = "Configure" =>
          /\ swap = last.pre.swap
          /\ amount = last.pre.amount
          /\ supply = last.pre.supply
          /\ HandlerState.calls = << >>
    /\ last.op \in GuardedOps =>
          /\ gs = last.pre.gs
          /\ swap = last.pre.swap
    /\ last.op = "Swap" => supply = last.pre.supply
    /\ supply = last.pre.supply + SupplyChange

\* a withdrawal that burned pool tokens of a pool whose records stayed
C37_Witness ==
    /\ last.op = "WithdrawAllTokenTypes"
    /\ last.err = Ok
    /\ WithdrawClamped > 0
    /\ supply = last.pre.supply - WithdrawClamped
    /\ gs = last.pre.gs
    /\ swap = last.pre.swap

(* C38: a Swap is priced with the fees and the curve the global state holds  *)
(* when the request is handled, also on a pool initialized before the        *)
(* Configure that stored them; and the outcome of a Swap, of a deposit and   *)
(* of a withdrawal is the same in two states that agree on the request, the  *)
(* reserves, the fees and the curve (and, for a deposit or withdrawal, the   *)
(* supply of pool tokens), whatever initial supply and owner the global      *)
(* state names and, for a Swap, whatever the supply of pool tokens is.       *)
Handled(s) ==
    CASE last.op = "Swap" -> process_swap(s, last.req)
      [] last.op = "DepositAllTokenTypes" -> process_DepositAllTokenTypes(s, last.req)
      [] last.op = "WithdrawAllTokenTypes" ->
             process_withdraw_all_token_types(s, last.req)

PricedAlike ==
    { [last.pre EXCEPT !.gs.initial_supply = n, !.gs.owner = o,
                       !.supply = IF last.op = "Swap" THEN n ELSE @] :
        o \in {INITIAL_PROGRAM_OWNER, "mallory"}, n \in {SupplyLow, SupplyHigh} }

====
